---- MODULE Spec2Model ----
(***************************************************************************)
(* A model of one node of the blockchain-go network: the block store, the  *)
(* tip pointer, the UTXO index, the mempool, the miner goroutine with its  *)
(* interruptible proof-of-work search, and the goroutines that serve       *)
(* inbound messages.  A second specification puts the node next to a peer  *)
(* that serves its chain, to follow the initial block download.            *)
(*                                                                         *)
(* SHA-256 is modelled as a digest of two numbers computed from the bytes  *)
(* of the preimage.  The only numeric fact the code uses about a block     *)
(* digest is its comparison with the target 2^(256-D), which holds exactly *)
(* when the digest has at least D leading zero bits; LeadingZeroBits gives *)
(* every digest a fixed number of them.                                    *)
(***************************************************************************)
EXTENDS Integers, Sequences, FiniteSets, TLC

(***************************************************************************)
(* Program constants.                                                      *)
(***************************************************************************)
Difficulty == 22
GenesisDifficulty == 16
InitialSubsidy == 50
HalvingInterval == 210000
MaxSupply == 21000000
checkInterval == 10000
timestampInterval == 1000
InterruptCap == 10

(***************************************************************************)
(* Bounds of the model.                                                    *)
(***************************************************************************)
MaxHeight == 2          \* blocks are mined or accepted up to this height
MaxTime == 1            \* the wall clock reads 0..MaxTime
NumHandlers == 2        \* connection goroutines that can run at once
HashPeriod == 12000     \* one nonce in HashPeriod meets the target
MaxLedger == 3          \* blocks a peer builds on genesis in the ledger runs
MaxPayments == 4        \* transfers peers send to the mempool in the merkle runs
MaxEra == 8             \* reward eras of HalvingInterval heights that the reward runs visit
MaxAccepted == 12       \* blocks a node without a miner accepts in a row

Min(a, b) == IF a < b THEN a ELSE b

(***************************************************************************)
(* Keys and addresses.  A key pair is a number; its public key hash is     *)
(* another number (RIPEMD160(SHA256(pubkey)) modelled as an injection).    *)
(***************************************************************************)
MinerKey == 1
OtherKey == 2
HashPubKey(pubKey) == pubKey + 100

(***************************************************************************)
(* SHA-256.  A byte string is a sequence of numbers and a digest is a pair *)
(* of numbers obtained by absorbing the string one number at a time; the   *)
(* empty byte string (a nil slice) is the empty sequence.                  *)
(***************************************************************************)
NilBytes == << >>

Absorb(h, x) ==
    << (31 * h[1] + x + 7) % (83 * HashPeriod), (37 * h[2] + x + 11) % 999983 >>

RECURSIVE AbsorbAll(_, _)
AbsorbAll(h, data) ==
    IF Len(data) = 0 THEN h ELSE AbsorbAll(Absorb(h, Head(data)), Tail(data))

Sha256(data) == AbsorbAll(<< 1, 1 >>, data)

\* A length-prefixed byte slice inside an encoding.
Slice(bytes) == << Len(bytes) >> \o bytes

(***************************************************************************)
(* Transactions.                                                           *)
(***************************************************************************)
TXInput(id, out, sig, pubKey) ==
    [ID |-> id, Out |-> out, Signature |-> sig, PubKey |-> pubKey]

TXOutput(value, pubKeyHash) == [Value |-> value, PubKeyHash |-> pubKeyHash]

SerializeInput(in) == Slice(in.ID) \o << in.Out + 1 >> \o Slice(in.Signature) \o << in.PubKey >>
SerializeOutput(out) == << out.Value, out.PubKeyHash >>

RECURSIVE SerializeInputs(_)
SerializeInputs(ins) ==
    IF Len(ins) = 0 THEN << >> ELSE SerializeInput(Head(ins)) \o SerializeInputs(Tail(ins))

RECURSIVE SerializeOutputs(_)
SerializeOutputs(outs) ==
    IF Len(outs) = 0 THEN << >> ELSE SerializeOutput(Head(outs)) \o SerializeOutputs(Tail(outs))

\* Transaction.Serialize: the gob encoding, as the bytes of the fields.
SerializeTx(tx) ==
    Slice(tx.ID) \o << Len(tx.Inputs) >> \o SerializeInputs(tx.Inputs)
                 \o << Len(tx.Outputs) >> \o SerializeOutputs(tx.Outputs)

\* Transaction.Hash: the digest of the serialization with the ID cleared.
TxHash(tx) == Sha256(SerializeTx([tx EXCEPT !.ID = NilBytes]))

IsCoinbase(tx) ==
    /\ Len(tx.Inputs) = 1
    /\ Len(tx.Inputs[1].ID) = 0
    /\ tx.Inputs[1].Out = -1

RECURSIVE Halve(_, _)
Halve(reward, halvings) ==
    IF halvings = 0 THEN reward ELSE Halve(reward \div 2, halvings - 1)

\* The reward without the halvings.
GetBlockRewardFlat(height) ==
    IF InitialSubsidy < 1 THEN 0 ELSE InitialSubsidy

GetBlockReward(height) ==
    LET reward == Halve(InitialSubsidy, height \div HalvingInterval)
    IN  IF reward < 1 THEN 0 ELSE reward

\* CoinbaseTX(to, data, height): one sentinel input carrying data, one
\* output paying the reward of the height to the address.
CoinbaseTX(to, data, height) ==
    LET tx == [ID |-> NilBytes,
               Inputs |-> << TXInput(NilBytes, -1, NilBytes, data) >>,
               Outputs |-> << TXOutput(GetBlockReward(height), HashPubKey(to)) >>]
    IN  [tx EXCEPT !.ID = TxHash(tx)]

(***************************************************************************)
(* Merkle tree over the transaction serializations.                        *)
(***************************************************************************)
\* NewMerkleNode: a leaf hashes its data, an inner node its two children.
MerkleLeaf(data) == Sha256(data)
MerkleInner(left, right) == Sha256(left \o right)

\* One round of the tree loop: the nodes are paired two by two, and
\* nodes[j+1] of a last node without a partner is out of range.
RECURSIVE MerkleLevel(_)
MerkleLevel(nodes) ==
    IF Len(nodes) = 0 THEN [status |-> "ok", nodes |-> << >>]
    ELSE IF Len(nodes) = 1 THEN [status |-> "panic", nodes |-> << >>]
    ELSE LET rest == MerkleLevel(SubSeq(nodes, 3, Len(nodes)))
         IN  [status |-> rest.status,
              nodes |-> << MerkleInner(nodes[1], nodes[2]) >> \o rest.nodes]

RECURSIVE MerkleLoop(_, _)
MerkleLoop(r, rounds) ==
    IF rounds = 0 \/ r.status # "ok" THEN r
    ELSE MerkleLoop(MerkleLevel(r.nodes), rounds - 1)

\* NewMerkleTree(data): a list of odd length gets its last item twice, the
\* loop runs len(data)/2 times, and the tree is rooted at nodes[0].
NewMerkleTree(data) ==
    LET padded == IF Len(data) % 2 # 0 THEN Append(data, data[Len(data)]) ELSE data
        leaves == [i \in 1..Len(padded) |-> MerkleLeaf(padded[i])]
        r == MerkleLoop([status |-> "ok", nodes |-> leaves], Len(padded) \div 2)
    IN  IF r.status = "ok" /\ Len(r.nodes) > 0
        THEN [status |-> "ok", RootNode |-> r.nodes[1]]
        ELSE [status |-> "panic", RootNode |-> NilBytes]

\* Block.HashTransactions: tree.RootNode.Data over the serializations.
HashTransactions(txs) ==
    NewMerkleTree([i \in 1..Len(txs) |-> SerializeTx(txs[i])]).RootNode

(***************************************************************************)
(* Blocks and proof of work.                                               *)
(***************************************************************************)
Block(ts, hash, txs, prevHash, nonce, height, difficulty, merkleRoot) ==
    [Timestamp |-> ts, Hash |-> hash, Transactions |-> txs, PrevHash |-> prevHash,
     Nonce |-> nonce, Height |-> height, Difficulty |-> difficulty,
     MerkleRoot |-> merkleRoot]

\* Block.Serialize / Deserialize: the gob encoding as the tuple of the fields.
Serialize(b) ==
    << b.Timestamp, b.Hash, b.Transactions, b.PrevHash, b.Nonce, b.Height,
       b.Difficulty, b.MerkleRoot >>

Deserialize(d) == Block(d[1], d[2], d[3], d[4], d[5], d[6], d[7], d[8])

\* ProofOfWork.InitData: prev hash, stored merkle root, nonce, the block's
\* difficulty field and the block's timestamp, joined.
InitData(block, nonce) ==
    block.PrevHash \o block.MerkleRoot \o << nonce, block.Difficulty, block.Timestamp >>

\* The position of a digest in the cycle of HashPeriod digests.
DigestMix(digest) == digest[1] % HashPeriod

\* The number of leading zero bits of a digest (big.Int.SetBytes): one digest
\* in HashPeriod has 24, the next one 17, all others 3.
LeadingZeroBits(digest) ==
    IF DigestMix(digest) = 0 THEN 24
    ELSE IF DigestMix(digest) = 1 THEN 17 ELSE 3

\* intHash.Cmp(pow.Target) == -1 with Target = 1 << (256 - difficulty).
BelowTarget(digest, difficulty) == LeadingZeroBits(digest) >= difficulty

\* NewProofWithDifficulty: the target comes from the argument; a block whose
\* difficulty field is 0 gets the argument written into it.
NewProofWithDifficulty(b, difficulty) ==
    [Block |-> IF b.Difficulty = 0 THEN [b EXCEPT !.Difficulty = difficulty] ELSE b,
     Difficulty |-> difficulty]

NewProof(b) == NewProofWithDifficulty(b, Difficulty)

\* ProofOfWork.Validate
Validate(pow) ==
    BelowTarget(Sha256(InitData(pow.Block, pow.Block.Nonce)), pow.Difficulty)

\* One more nonce moves the digest NonceStride steps along the cycle of
\* HashPeriod digests (the nonce is absorbed two numbers before the end of
\* the preimage); StrideInverse undoes the stride.
NonceStride == 31 * 31
StrideInverse == CHOOSE k \in 0..(HashPeriod - 1) : (NonceStride * k) % HashPeriod = 1

\* The loop of RunWithInterrupt between two timestamp refreshes: the first
\* nonce in from..to whose digest is below the target, or -1.  The first
\* nonce with a given number of zero bits follows from the digest of nonce 0.
FirstValidNonce(pow, from, to) ==
    LET mix == DigestMix(Sha256(InitData(pow.Block, 0)))
        r24 == ((HashPeriod - mix) * StrideInverse) % HashPeriod
        r17 == ((HashPeriod + 1 - mix) * StrideInverse) % HashPeriod
        after(r) == from + ((r + HashPeriod - (from % HashPeriod)) % HashPeriod)
        first == IF pow.Difficulty <= 3 THEN from
                 ELSE IF pow.Difficulty <= 17 THEN Min(after(r24), after(r17))
                 ELSE IF pow.Difficulty <= 24 THEN after(r24)
                 ELSE to + 1
    IN  IF first <= to THEN first ELSE -1

(***************************************************************************)
(* Reading the chain.  A store is a function from keys (hashes) to         *)
(* serialized blocks.  A walk follows PrevHash from a start hash as        *)
(* BlockchainIterator.Next does; it panics on a hash that is not a key and *)
(* never ends on a cycle.                                                  *)
(***************************************************************************)
RECURSIVE WalkFrom(_, _, _)
WalkFrom(store, hash, fuel) ==
    IF hash \notin DOMAIN store THEN [status |-> "panic", blocks |-> << >>]
    ELSE LET block == Deserialize(store[hash])
         IN  IF Len(block.PrevHash) = 0 THEN [status |-> "ok", blocks |-> << block >>]
             ELSE IF fuel = 0 THEN [status |-> "loop", blocks |-> << block >>]
             ELSE LET rest == WalkFrom(store, block.PrevHash, fuel - 1)
                  IN  [status |-> rest.status, blocks |-> << block >> \o rest.blocks]

\* The blocks from a tip back to genesis, as the loops over Iterator().Next()
\* in getBlocks, getBlock, FindTransaction and FindAllUTXO see them.
Walk(store, tip) == WalkFrom(store, tip, Cardinality(DOMAIN store))

\* Blockchain.GetBestHeight: the height of the block under the in-memory tip.
GetBestHeight(store, lastHash) == Deserialize(store[lastHash]).Height

\* All transactions of a walk, in the order the loops visit them.
RECURSIVE TxsOf(_)
TxsOf(blocks) ==
    IF Len(blocks) = 0 THEN << >> ELSE blocks[1].Transactions \o TxsOf(Tail(blocks))

\* Blockchain.FindTransaction: the first match met by the walk; when there
\* is none the walk runs to its end, which is genesis, a panic or a cycle.
FindTransaction(walk, id) ==
    LET txs == TxsOf(walk.blocks)
        hits == { i \in 1..Len(txs) : txs[i].ID = id }
    IN  IF hits # {}
        THEN [status |-> "found", tx |-> txs[CHOOSE i \in hits : \A j \in hits : i <= j]]
        ELSE [status |-> IF walk.status = "ok" THEN "notfound" ELSE walk.status,
              tx |-> CoinbaseTX(0, 0, 0)]

\* Transaction.TrimmedCopy: signatures and public keys cleared.
TrimmedCopy(tx) ==
    [tx EXCEPT !.Inputs = [i \in 1..Len(tx.Inputs) |->
                             TXInput(tx.Inputs[i].ID, tx.Inputs[i].Out, NilBytes, 0)]]

\* ecdsa.Sign / ecdsa.Verify: a signature names the key pair that made it and
\* the digest it was made over.
Sign(privKey, digest) == << privKey >> \o digest
EcdsaVerify(pubKey, digest, sig) ==
    /\ Len(sig) = 1 + Len(digest)
    /\ sig[1] = pubKey
    /\ Tail(sig) = digest

\* The digest an input signs: the trimmed copy with the spent output's key
\* hash in the input's PubKey.
SigningDigest(tx, inId, prevTx) ==
    TxHash([TrimmedCopy(tx) EXCEPT
              !.Inputs[inId].PubKey = prevTx.Outputs[tx.Inputs[inId].Out + 1].PubKeyHash])

\* Blockchain.VerifyTransaction followed by Transaction.Verify: "true",
\* "false", "panic" (a walk that panics, or an input index outside the
\* previous transaction's outputs) or "loop" (a walk that never ends).
VerifyTransaction(walk, tx) ==
    IF IsCoinbase(tx) THEN "true"
    ELSE LET prev(i) == FindTransaction(walk, tx.Inputs[i].ID)
             ins == 1..Len(tx.Inputs)
             bad == { i \in ins : prev(i).status # "found" }
             firstBad == CHOOSE i \in bad : \A j \in bad : i <= j
         IN  IF bad # {}
             THEN (IF prev(firstBad).status = "notfound" THEN "false"
                   ELSE prev(firstBad).status)
             ELSE IF \E i \in ins : \/ tx.Inputs[i].Out < 0
                                    \/ tx.Inputs[i].Out >= Len(prev(i).tx.Outputs)
                  THEN "panic"
             ELSE IF \A i \in ins : EcdsaVerify(tx.Inputs[i].PubKey,
                                                SigningDigest(tx, i, prev(i).tx),
                                                tx.Inputs[i].Signature)
                  THEN "true" ELSE "false"

\* A transaction with one input spending output `out` of prevTx and the given
\* outputs, signed by `key` as Transaction.Sign does.
SignedTx(prevTx, out, key, outputs) ==
    LET unsigned == [ID |-> NilBytes,
                     Inputs |-> << TXInput(prevTx.ID, out, NilBytes, key) >>,
                     Outputs |-> outputs]
        tx == [unsigned EXCEPT !.ID = TxHash(unsigned)]
    IN  [tx EXCEPT !.Inputs[1].Signature = Sign(key, SigningDigest(tx, 1, prevTx))]

(***************************************************************************)
(* The UTXO index.                                                         *)
(***************************************************************************)
EmptyMap == [k \in {} |-> << >>]

MapGet(m, k, default) == IF k \in DOMAIN m THEN m[k] ELSE default
MapPut(m, k, v) == [x \in DOMAIN m \cup {k} |-> IF x = k THEN v ELSE m[x]]

\* The outputs of tx whose index is not in spent, in order (the Outputs loop
\* of FindAllUTXO).
RECURSIVE UnspentOutputs(_, _, _)
UnspentOutputs(outs, idx, spentIdx) ==
    IF idx >= Len(outs) THEN << >>
    ELSE (IF idx \in spentIdx THEN << >> ELSE << outs[idx + 1] >>)
         \o UnspentOutputs(outs, idx + 1, spentIdx)

RECURSIVE MarkSpent(_, _, _)
MarkSpent(spent, inputs, i) ==
    IF i > Len(inputs) THEN spent
    ELSE MarkSpent(MapPut(spent, inputs[i].ID,
                          MapGet(spent, inputs[i].ID, {}) \cup {inputs[i].Out}),
                   inputs, i + 1)

\* Blockchain.FindAllUTXO over the transactions of a walk: every transaction
\* contributes the outputs not marked spent so far, then marks its inputs.
RECURSIVE FindAllUTXOLoop(_, _, _, _)
FindAllUTXOLoop(txs, i, UTXO, spentTXOs) ==
    IF i > Len(txs) THEN UTXO
    ELSE LET tx == txs[i]
             outs == UnspentOutputs(tx.Outputs, 0, MapGet(spentTXOs, tx.ID, {}))
             UTXO1 == IF Len(outs) = 0 THEN UTXO
                      ELSE MapPut(UTXO, tx.ID, MapGet(UTXO, tx.ID, << >>) \o outs)
             spent1 == IF IsCoinbase(tx) THEN spentTXOs
                       ELSE MarkSpent(spentTXOs, tx.Inputs, 1)
         IN  FindAllUTXOLoop(txs, i + 1, UTXO1, spent1)

FindAllUTXO(blocks) == FindAllUTXOLoop(TxsOf(blocks), 1, EmptyMap, EmptyMap)

\* TXOutputs.Serialize of every entry, as Reindex writes them.
SerializeUTXO(UTXO) == [id \in DOMAIN UTXO |-> SerializeOutputs(UTXO[id])]

\* DeserializeOutputs: the outputs of an index entry.
DeserializeOutputs(bytes) ==
    [k \in 1..(Len(bytes) \div 2) |-> TXOutput(bytes[2 * k - 1], bytes[2 * k])]

\* The sum of the values of a list of outputs.
RECURSIVE SumValues(_)
SumValues(outs) ==
    IF Len(outs) = 0 THEN 0 ELSE Head(outs).Value + SumValues(Tail(outs))

\* The outputs of an index entry without the one at position pos (the loop
\* over outs.Outputs in Update, which keeps every outIdx other than in.Out).
DropAt(outs, pos) ==
    IF pos \in 0..(Len(outs) - 1)
    THEN SubSeq(outs, 1, pos) \o SubSeq(outs, pos + 2, Len(outs))
    ELSE outs

\* The inputs loop of UTXOSet.Update for one transaction: db.Get of the
\* entry of the input's transaction (a missing key panics), then db.Delete
\* of the entry when no output is left and db.Put of the rest otherwise.
RECURSIVE UpdateInputs(_, _, _)
UpdateInputs(r, inputs, i) ==
    IF i > Len(inputs) \/ r.status # "ok" THEN r
    ELSE LET in == inputs[i]
         IN  IF in.ID \notin DOMAIN r.index
             THEN [status |-> "panic", index |-> r.index]
             ELSE LET updatedOuts == DropAt(DeserializeOutputs(r.index[in.ID]), in.Out)
                  IN  UpdateInputs(
                        [status |-> "ok",
                         index |-> IF Len(updatedOuts) = 0
                                   THEN [k \in DOMAIN r.index \ {in.ID} |-> r.index[k]]
                                   ELSE MapPut(r.index, in.ID, SerializeOutputs(updatedOuts))],
                        inputs, i + 1)

\* The transactions loop of UTXOSet.Update: the inputs of a transaction that
\* is not a coinbase, then db.Put of all its outputs under its id.
RECURSIVE UpdateLoop(_, _, _)
UpdateLoop(r, txs, i) ==
    IF i > Len(txs) \/ r.status # "ok" THEN r
    ELSE LET tx == txs[i]
             r1 == IF IsCoinbase(tx) THEN r ELSE UpdateInputs(r, tx.Inputs, 1)
         IN  IF r1.status # "ok" THEN r1
             ELSE UpdateLoop([status |-> "ok",
                              index |-> MapPut(r1.index, tx.ID, SerializeOutputs(tx.Outputs))],
                             txs, i + 1)

\* UTXOSet.Update on the "utxo-" entries.
Update(index, block) ==
    UpdateLoop([status |-> "ok", index |-> index], block.Transactions, 1)

\* The order of the keys under an iterator of the store.
KeyLess(a, b) == a[1] < b[1] \/ (a[1] = b[1] /\ a[2] < b[2])

\* The loop over outs.Outputs in FindSpendableOutputs: outIdx is the
\* position of the output in the entry.
RECURSIVE ScanOutputs(_, _, _, _, _)
ScanOutputs(outs, pos, pubKeyHash, amount, r) ==
    IF pos > Len(outs) THEN r
    ELSE IF outs[pos].PubKeyHash = pubKeyHash /\ r.accumulated < amount
    THEN ScanOutputs(outs, pos + 1, pubKeyHash, amount,
                     [accumulated |-> r.accumulated + outs[pos].Value,
                      picked |-> Append(r.picked, pos - 1)])
    ELSE ScanOutputs(outs, pos + 1, pubKeyHash, amount, r)

\* UTXOSet.FindSpendableOutputs: the entries in key order.
RECURSIVE FindSpendableLoop(_, _, _, _, _)
FindSpendableLoop(index, keys, pubKeyHash, amount, r) ==
    IF keys = {} THEN r
    ELSE LET k == CHOOSE x \in keys : \A y \in keys \ {x} : KeyLess(x, y)
             scan == ScanOutputs(DeserializeOutputs(index[k]), 1, pubKeyHash, amount,
                                 [accumulated |-> r.accumulated, picked |-> << >>])
         IN  FindSpendableLoop(index, keys \ {k}, pubKeyHash, amount,
                 [accumulated |-> scan.accumulated,
                  unspentOuts |-> IF Len(scan.picked) = 0 THEN r.unspentOuts
                                  ELSE MapPut(r.unspentOuts, k, scan.picked)])

FindSpendableOutputs(index, pubKeyHash, amount) ==
    FindSpendableLoop(index, DOMAIN index, pubKeyHash, amount,
                      [accumulated |-> 0, unspentOuts |-> EmptyMap])

\* The input refers to an output of a transaction of the blocks.
Resolves(in, blocks) ==
    \E k \in 1..Len(blocks) : \E t \in 1..Len(blocks[k].Transactions) :
        /\ blocks[k].Transactions[t].ID = in.ID
        /\ in.Out \in 0..(Len(blocks[k].Transactions[t].Outputs) - 1)

\* The output the input refers to is spent by a transaction of the blocks.
SpentIn(in, blocks) ==
    \E k \in 1..Len(blocks) : \E t \in 1..Len(blocks[k].Transactions) :
        /\ ~IsCoinbase(blocks[k].Transactions[t])
        /\ \E m \in 1..Len(blocks[k].Transactions[t].Inputs) :
              /\ blocks[k].Transactions[t].Inputs[m].ID = in.ID
              /\ blocks[k].Transactions[t].Inputs[m].Out = in.Out

(***************************************************************************)
(* The state of the node.                                                  *)
(***************************************************************************)
VARIABLES
    db,               \* Blockchain.Database: block hash -> serialized block
    lh,               \* the hash stored under the key "lh"
    LastHash,         \* Blockchain.LastHash, the in-memory tip
    utxo,             \* the "utxo-" entries: transaction id -> serialized outputs
    memoryPool,       \* transaction id -> transaction
    miningInterrupt,  \* tokens waiting in the buffered channel
    blocksInTransit,  \* hashes announced and not yet requested
    sent,             \* history: every message put on the wire, in order
    knownNodes,       \* knownNodes of the node and of the peer
    miner,            \* the miner goroutine: position and locals
    handlers,         \* the connection goroutines: position and locals
    now,              \* the last reading of the wall clock
    crashed,          \* a goroutine panicked: the process is gone
    net,              \* messages sent and not yet handled
    peerChain,        \* the chain the peer serves, tip first
    tipLog            \* history: every (height, hash) written to the tip pointer

vars == << db, lh, LastHash, utxo, memoryPool, miningInterrupt, blocksInTransit, sent, knownNodes,
           miner, handlers, now, crashed, net, peerChain, tipLog >>

GenesisData == 0
Peer == "peer"
Node == "node"

\* ProofOfWork.Run with a clock that stands still, and the assignments that
\* follow it in CreateBlockWithDifficulty: the nonce and the hash of the
\* search go into the block.
Run(block) ==
    LET pow == NewProofWithDifficulty(block, block.Difficulty)
        nonce == FirstValidNonce(pow, 0, HashPeriod)
    IN  [block EXCEPT !.Nonce = nonce, !.Hash = Sha256(InitData(block, nonce))]

\* CreateBlockWithDifficulty: the merkle root of the transactions is stored
\* in the block before the search.
MinedBlock(txs, prevHash, height, difficulty, ts) ==
    Run(Block(ts, NilBytes, txs, prevHash, 0, height, difficulty, HashTransactions(txs)))

\* Genesis(CoinbaseTX(address, GenesisData, 0))
Genesis == MinedBlock(<< CoinbaseTX(MinerKey, GenesisData, 0) >>, NilBytes, 0,
                      GenesisDifficulty, 0)

IdleHandler ==
    [pc |-> "idle", block |-> Genesis, from |-> Peer, UTXO |-> EmptyMap, verdict |-> "none",
     blockHash |-> NilBytes]
IdleMiner == [pc |-> "idle", txs |-> << >>, block |-> Genesis, nonce |-> 0,
              UTXO |-> EmptyMap, overtaken |-> FALSE, outcome |-> "none"]

\* A store holding the given blocks under their hashes.
StoreOf(blocks) ==
    [k \in { blocks[i].Hash : i \in 1..Len(blocks) } |->
        Serialize(blocks[CHOOSE i \in 1..Len(blocks) : blocks[i].Hash = k])]

\* A node whose chain is `chain` (tip first): the store and tip as
\* InitBlockchain or ContinueBlockchain leave them, the index as
\* UTXOSet.Reindex leaves it, and NewServer: an empty channel of capacity
\* 10, nothing in transit.
InitNode(chain) ==
    /\ db = StoreOf(chain)
    /\ lh = chain[1].Hash
    /\ LastHash = chain[1].Hash
    /\ utxo = SerializeUTXO(FindAllUTXO(chain))
    /\ memoryPool = EmptyMap
    /\ miningInterrupt = 0
    /\ blocksInTransit = << >>
    /\ miner = IdleMiner
    /\ handlers = [i \in 1..NumHandlers |-> IdleHandler]
    /\ now = 0
    /\ crashed = FALSE
    /\ tipLog = { << chain[1].Height, chain[1].Hash >> }

\* The messages under way at the start, and knownNodes as initKnownNodes
\* leaves it in every process: the seed node alone.
InitWire(msgs, seedNode) ==
    /\ net = { msgs[k] : k \in 1..Len(msgs) }
    /\ sent = msgs
    /\ knownNodes = [n \in {Node, Peer} |-> << seedNode >>]

Init ==
    /\ InitNode(<< Genesis >>)
    /\ InitWire(<< >>, Peer)
    /\ peerChain = << >>

(***************************************************************************)
(* Blocks a peer can send.  An honest peer extends the block the node      *)
(* announces as its tip.  Other peers send a block whose nonce misses the  *)
(* target, a block whose merkle root is the root of other transactions,    *)
(* and blocks of a chain that grew from another genesis block.             *)
(***************************************************************************)
PeerHeights == 0..((IF MaxHeight > MaxAccepted THEN MaxHeight ELSE MaxAccepted) + 1)

\* The coinbase a peer pays itself at each height, and its merkle root.
PeerTxs == [h \in PeerHeights |-> << CoinbaseTX(OtherKey, 1, h) >>]
PeerRoot == [h \in PeerHeights |-> HashTransactions(PeerTxs[h])]

\* The merkle root of another transaction list.
OtherRoot == [h \in PeerHeights |-> HashTransactions(<< CoinbaseTX(OtherKey, 2, h) >>)]

\* The block a peer mines on a parent (CreateBlockWithDifficulty).
PeerChild(parent) ==
    Run(Block(1, NilBytes, PeerTxs[parent.Height + 1], parent.Hash, 0,
              parent.Height + 1, Difficulty, PeerRoot[parent.Height + 1]))

BadPowChild(parent) ==
    LET c == PeerChild(parent)
    IN  [c EXCEPT !.Nonce = c.Nonce + 1, !.Hash = Sha256(InitData(c, c.Nonce + 1))]

BadMerkleChild(parent) ==
    Run(Block(1, NilBytes, PeerTxs[parent.Height + 1], parent.Hash, 0,
              parent.Height + 1, Difficulty, OtherRoot[parent.Height + 1]))

\* A coinbase whose output carries a value of the sender's choice.
ForgedCoinbase(to, data, value) ==
    LET tx == [ID |-> NilBytes,
               Inputs |-> << TXInput(NilBytes, -1, NilBytes, data) >>,
               Outputs |-> << TXOutput(value, HashPubKey(to)) >>]
    IN  [tx EXCEPT !.ID = TxHash(tx)]

\* A block whose coinbase pays its miner twenty times the initial subsidy.
RichTxs == [h \in PeerHeights |-> << ForgedCoinbase(OtherKey, 1, 20 * InitialSubsidy) >>]
RichRoot == [h \in PeerHeights |-> HashTransactions(RichTxs[h])]

BadRewardChild(parent) ==
    Run(Block(1, NilBytes, RichTxs[parent.Height + 1], parent.Hash, 0,
              parent.Height + 1, Difficulty, RichRoot[parent.Height + 1]))

\* A block whose second transaction spends the coinbase of the genesis block
\* of another chain, a transaction the node has never stored.
DanglingTxs ==
    [h \in PeerHeights |->
        << CoinbaseTX(OtherKey, 1, h),
           SignedTx(CoinbaseTX(OtherKey, GenesisData, 0), 0, OtherKey,
                    << TXOutput(InitialSubsidy, HashPubKey(OtherKey)) >>) >>]
DanglingRoot == [h \in PeerHeights |-> HashTransactions(DanglingTxs[h])]

DanglingChild(parent) ==
    Run(Block(1, NilBytes, DanglingTxs[parent.Height + 1], parent.Hash, 0,
              parent.Height + 1, Difficulty, DanglingRoot[parent.Height + 1]))

\* A chain of another network: its genesis block pays another address.
ForeignGenesis == MinedBlock(<< CoinbaseTX(OtherKey, GenesisData, 0) >>, NilBytes, 0,
                             GenesisDifficulty, 0)

RECURSIVE ChainOn(_, _)
ChainOn(chain, length) ==
    IF Len(chain) >= length THEN chain
    ELSE ChainOn(<< PeerChild(chain[1]) >> \o chain, length)

\* The foreign chain, tip first, up to height MaxHeight.
ForeignChain == ChainOn(<< ForeignGenesis >>, MaxHeight + 1)
ForeignBlock(height) == ForeignChain[Len(ForeignChain) - height]

StoredBlocks(store) == { Deserialize(store[k]) : k \in DOMAIN store }

\* The block under the persisted tip pointer, while it can be extended.
Extendable(store) ==
    { p \in StoredBlocks(store) : p.Hash = lh /\ p.Height < MaxHeight }

HonestBlocks(store) == { PeerChild(p) : p \in Extendable(store) }

CandidateBlocks(store) ==
    HonestBlocks(store)
        \cup { BadPowChild(p) : p \in Extendable(store) }
        \cup { BadMerkleChild(p) : p \in Extendable(store) }
        \cup { ForeignBlock(h) : h \in 1..MaxHeight }

(***************************************************************************)
(* Messages.                                                               *)
(***************************************************************************)
\* A frame on the wire: the command, the fields of the payload, and whether
\* the frame is whole ("ok"), shorter than the command ("short") or carries
\* a payload that gob cannot decode ("garbled").
Msg(to, cmd, height, items, block) ==
    [to |-> to, cmd |-> cmd, height |-> height, items |-> items, block |-> block,
     kind |-> "block", tx |-> << >>, frame |-> "ok"]

sendVersion(to, bestHeight) == Msg(to, "version", bestHeight, << >>, << >>)
sendGetBlocks(to) == Msg(to, "getblocks", 0, << >>, << >>)
sendInv(to, items) == Msg(to, "inv", 0, items, << >>)
sendGetData(to, id) == Msg(to, "getdata", 0, << id >>, << >>)
sendBlock(to, block) == Msg(to, "block", 0, << >>, Serialize(block))
sendAddr(to, AddrList) == Msg(to, "addr", 0, AddrList, << >>)
sendGetDataTx(to, id) == [Msg(to, "getdata", 0, << id >>, << >>) EXCEPT !.kind = "tx"]
sendTx(to, tx) == [Msg(to, "tx", 0, << >>, << >>) EXCEPT !.tx = SerializeTx(tx)]

(***************************************************************************)
(* UTXOSet.Reindex, in its three parts: DeleteByPrefix, FindAllUTXO over   *)
(* the chain from the in-memory tip, and the writes.                       *)
(***************************************************************************)
DeleteByPrefix == EmptyMap

ReindexPut(index, UTXO) ==
    [id \in DOMAIN index \cup DOMAIN UTXO |->
        IF id \in DOMAIN UTXO THEN SerializeOutputs(UTXO[id]) ELSE index[id]]

(***************************************************************************)
(* handleBlock and addBlock, run by connection goroutine i.                *)
(***************************************************************************)
Handler(i) == handlers[i]
SetHandler(i, pc) == handlers' = [handlers EXCEPT ![i].pc = pc]

\* addBlock writing the block before the height check.
AddBlockCheckPutBeforeHeight(i, block) ==
    LET currentHeight == GetBestHeight(db, LastHash)
        pow == NewProofWithDifficulty(block, block.Difficulty)
    IN  /\ db' = IF block.Height = currentHeight + 1 /\ ~Validate(pow)
                 THEN db ELSE MapPut(db, block.Hash, Serialize(pow.Block))
        /\ handlers' = [handlers EXCEPT ![i] =
             IF block.Height # currentHeight + 1
             THEN [IdleHandler EXCEPT !.pc = "tail",
                     !.verdict = IF block.Height > currentHeight + 1
                                 THEN "missing" ELSE "stale"]
             ELSE IF ~Validate(pow)
             THEN [IdleHandler EXCEPT !.pc = "tail", !.verdict = "badpow"]
             ELSE [IdleHandler EXCEPT !.pc = "putlh", !.block = pow.Block,
                                      !.verdict = "accepted"]]

\* addBlock writing the block before the proof-of-work check.
AddBlockCheckPutBeforePow(i, block) ==
    LET currentHeight == GetBestHeight(db, LastHash)
        pow == NewProofWithDifficulty(block, block.Difficulty)
    IN  /\ db' = IF block.Height # currentHeight + 1
                 THEN db ELSE MapPut(db, block.Hash, Serialize(pow.Block))
        /\ handlers' = [handlers EXCEPT ![i] =
             IF block.Height # currentHeight + 1
             THEN [IdleHandler EXCEPT !.pc = "tail",
                     !.verdict = IF block.Height > currentHeight + 1
                                 THEN "missing" ELSE "stale"]
             ELSE IF ~Validate(pow)
             THEN [IdleHandler EXCEPT !.pc = "tail", !.verdict = "badpow"]
             ELSE [IdleHandler EXCEPT !.pc = "putlh", !.block = pow.Block,
                                      !.verdict = "accepted"]]

\* addBlock up to the write of the block: the height check against the
\* in-memory tip, the proof-of-work check, Database.Put(block.Hash, ...).
\* A block that fails a check is dropped and addBlock returns.
AddBlockCheck(i, block) ==
    LET currentHeight == GetBestHeight(db, LastHash)
        pow == NewProofWithDifficulty(block, block.Difficulty)
    IN  IF block.Height # currentHeight + 1
        THEN /\ db' = db
             /\ handlers' = [handlers EXCEPT ![i] =
                  [IdleHandler EXCEPT !.pc = "tail",
                     !.verdict = IF block.Height > currentHeight + 1
                                 THEN "missing" ELSE "stale"]]
        ELSE IF ~Validate(pow)
        THEN /\ db' = db
             /\ handlers' = [handlers EXCEPT ![i] =
                  [IdleHandler EXCEPT !.pc = "tail", !.verdict = "badpow"]]
        ELSE /\ db' = MapPut(db, block.Hash, Serialize(pow.Block))
             /\ handlers' = [handlers EXCEPT ![i] =
                  [IdleHandler EXCEPT !.pc = "putlh", !.block = pow.Block,
                                      !.verdict = "accepted"]]

\* handleBlock on a block message: the payload is decoded and handed to
\* addBlock.
ReceiveBlock(i, data) ==
    /\ ~crashed
    /\ Handler(i).pc = "idle"
    /\ AddBlockCheck(i, Deserialize(data))
    /\ UNCHANGED << lh, LastHash, utxo, memoryPool, miningInterrupt, blocksInTransit, sent, knownNodes,
                    miner, now, crashed, peerChain, tipLog >>

\* A block message from an honest peer.
HandleHonestBlock(i) ==
    /\ \E b \in HonestBlocks(db) : ReceiveBlock(i, Serialize(b))
    /\ net' = net

\* A block message from any peer.
HandleBlock(i) ==
    /\ \E b \in CandidateBlocks(db) : ReceiveBlock(i, Serialize(b))
    /\ net' = net

\* A block message sent in reply to a getdata of the node.
HandleBlockReply(i) ==
    \E m \in net :
        /\ m.to = Node
        /\ m.cmd = "block"
        /\ ReceiveBlock(i, m.block)
        /\ net' = net \ {m}

\* Database.Put("lh", block.Hash)
AddBlockPutLh(i) ==
    /\ ~crashed
    /\ Handler(i).pc = "putlh"
    /\ lh' = Handler(i).block.Hash
    /\ tipLog' = tipLog \cup { << Handler(i).block.Height, Handler(i).block.Hash >> }
    /\ SetHandler(i, "setlast")
    /\ UNCHANGED << db, LastHash, utxo, memoryPool, miningInterrupt, blocksInTransit, sent, knownNodes,
                    miner, now, crashed, net, peerChain >>

\* s.Blockchain.LastHash = block.Hash
AddBlockSetLast(i) ==
    /\ ~crashed
    /\ Handler(i).pc = "setlast"
    /\ LastHash' = Handler(i).block.Hash
    /\ SetHandler(i, "reindex")
    /\ UNCHANGED << db, lh, utxo, memoryPool, miningInterrupt, blocksInTransit, sent, knownNodes,
                    miner, now, crashed, net, peerChain, tipLog >>

\* Reindex, first part, in addBlock ("reindex") or at the end of handleBlock
\* ("tail" with nothing in transit).
HandlerReindexDelete(i) ==
    /\ ~crashed
    /\ \/ Handler(i).pc = "reindex" /\ SetHandler(i, "find")
       \/ Handler(i).pc = "tail" /\ Len(blocksInTransit) = 0 /\ SetHandler(i, "tailfind")
    /\ utxo' = DeleteByPrefix
    /\ UNCHANGED << db, lh, LastHash, memoryPool, miningInterrupt, blocksInTransit, sent, knownNodes,
                    miner, now, crashed, net, peerChain, tipLog >>

\* Reindex, second part: the walk from the in-memory tip.  A missing block
\* panics; a cycle keeps the goroutine in the loop for ever.
HandlerReindexFind(i) ==
    /\ ~crashed
    /\ Handler(i).pc \in {"find", "tailfind"}
    /\ LET walk == Walk(db, LastHash)
       IN  /\ crashed' = (walk.status = "panic")
           /\ handlers' = [handlers EXCEPT
                 ![i].pc = IF walk.status = "ok"
                           THEN (IF @ = "find" THEN "put" ELSE "tailput")
                           ELSE IF walk.status = "loop" THEN "stuck" ELSE @,
                 ![i].UTXO = IF walk.status = "ok" THEN FindAllUTXO(walk.blocks) ELSE @]
    /\ UNCHANGED << db, lh, LastHash, utxo, memoryPool, miningInterrupt, blocksInTransit, sent, knownNodes,
                    miner, now, net, peerChain, tipLog >>

\* Reindex, third part: the writes.
HandlerReindexPut(i) ==
    /\ ~crashed
    /\ \/ /\ Handler(i).pc = "put"
          /\ handlers' = [handlers EXCEPT ![i].pc = "signal", ![i].UTXO = EmptyMap]
       \/ /\ Handler(i).pc = "tailput"
          /\ handlers' = [handlers EXCEPT ![i] = IdleHandler]
    /\ utxo' = ReindexPut(utxo, Handler(i).UTXO)
    /\ UNCHANGED << db, lh, LastHash, memoryPool, miningInterrupt, blocksInTransit, sent, knownNodes,
                    miner, now, crashed, net, peerChain, tipLog >>

\* A send that always adds its token.
AddBlockSignalUnbounded(i) ==
    /\ ~crashed
    /\ Handler(i).pc = "signal"
    /\ miningInterrupt' = miningInterrupt + 1
    /\ handlers' = [handlers EXCEPT ![i].pc = "tail", ![i].block = Genesis]
    /\ miner' = miner
    /\ UNCHANGED << db, lh, LastHash, utxo, memoryPool, blocksInTransit, sent, knownNodes,
                    now, crashed, net, peerChain, tipLog >>

\* select { case s.miningInterrupt <- true: ... default: }, the end of
\* addBlock for an accepted block.
AddBlockSignal(i) ==
    /\ ~crashed
    /\ Handler(i).pc = "signal"
    /\ miningInterrupt' = IF miningInterrupt < InterruptCap
                          THEN miningInterrupt + 1 ELSE miningInterrupt
    /\ handlers' = [handlers EXCEPT ![i].pc = "tail", ![i].block = Genesis]
    /\ miner' = IF miner.pc \in {"poll", "hash"}
                   /\ miner.block.Height = Handler(i).block.Height
                THEN [miner EXCEPT !.overtaken = TRUE] ELSE miner
    /\ UNCHANGED << db, lh, LastHash, utxo, memoryPool, blocksInTransit, sent, knownNodes,
                    now, crashed, net, peerChain, tipLog >>

\* The end of handleBlock with blocks in transit: request the next one.
HandleBlockNext(i) ==
    /\ ~crashed
    /\ Handler(i).pc = "tail"
    /\ Len(blocksInTransit) > 0
    /\ net' = net \cup { sendGetData(Handler(i).from, blocksInTransit[1]) }
    /\ sent' = Append(sent, sendGetData(Handler(i).from, blocksInTransit[1]))
    /\ blocksInTransit' = Tail(blocksInTransit)
    /\ knownNodes' = knownNodes
    /\ handlers' = [handlers EXCEPT ![i] = IdleHandler]
    /\ UNCHANGED << db, lh, LastHash, utxo, memoryPool, miningInterrupt,
                    miner, now, crashed, peerChain, tipLog >>

(***************************************************************************)
(* handleTx: the transaction of a tx message goes into the mempool.        *)
(***************************************************************************)
\* A transfer as NewTransaction builds it: one input spending output `out`
\* of prevTx, signed by `key`, paying `amount` to `to` and the rest back.
Transfer(prevTx, out, key, to, amount) ==
    LET total == prevTx.Outputs[out + 1].Value
        unsigned == [ID |-> NilBytes,
                     Inputs |-> << TXInput(prevTx.ID, out, NilBytes, key) >>,
                     Outputs |-> IF total > amount
                                 THEN << TXOutput(amount, HashPubKey(to)),
                                         TXOutput(total - amount, HashPubKey(key)) >>
                                 ELSE << TXOutput(amount, HashPubKey(to)) >>]
        tx == [unsigned EXCEPT !.ID = TxHash(unsigned)]
    IN  [tx EXCEPT !.Inputs[1].Signature = Sign(key, SigningDigest(tx, 1, prevTx))]

\* The transactions peers send: the miner's key spending the genesis reward.
TxUniverse ==
    { Transfer(Genesis.Transactions[1], 0, MinerKey, OtherKey, 10) }

\* The transfer of TxUniverse.
Honest == Transfer(Genesis.Transactions[1], 0, MinerKey, OtherKey, 10)

\* A signed transaction whose output is worth twenty times the output it
\* spends.
Inflated ==
    SignedTx(Genesis.Transactions[1], 0, MinerKey,
             << TXOutput(20 * InitialSubsidy, HashPubKey(OtherKey)) >>)

\* The transfer with a signature that is not one of its public key.
Forged == [Honest EXCEPT !.Inputs[1].Signature = Sign(OtherKey, Tail(@))]

\* A transaction of the holder of OtherKey that spends the genesis reward,
\* which is locked to MinerKey: the input carries OtherKey as its public key
\* and a signature made with OtherKey.
Stolen ==
    SignedTx(Genesis.Transactions[1], 0, OtherKey,
             << TXOutput(InitialSubsidy, HashPubKey(OtherKey)) >>)

\* The transactions any peer can send.
TxCandidates == { Honest, Inflated, Forged, Stolen }

\* The miner holds mempoolMux from the end of a successful search to the end
\* of mineTransactions.
MinerHoldsMempool == miner.pc \in {"reindex", "find", "put", "cleanup"}

HandleTx(i) ==
    /\ ~crashed
    /\ Handler(i).pc = "idle"
    /\ ~MinerHoldsMempool
    /\ \E t \in TxUniverse :
          memoryPool' = MapPut(memoryPool, t.ID, t)
    /\ UNCHANGED << db, lh, LastHash, utxo, miningInterrupt, blocksInTransit, sent, knownNodes,
                    miner, handlers, now, crashed, net, peerChain, tipLog >>

\* A tx message from any peer.
HandleAnyTx(i) ==
    /\ ~crashed
    /\ Handler(i).pc = "idle"
    /\ ~MinerHoldsMempool
    /\ \E t \in TxCandidates :
          memoryPool' = MapPut(memoryPool, t.ID, t)
    /\ UNCHANGED << db, lh, LastHash, utxo, miningInterrupt, blocksInTransit, sent, knownNodes,
                    miner, handlers, now, crashed, net, peerChain, tipLog >>

(***************************************************************************)
(* The miner goroutine: miningLoop calling mineTransactions.               *)
(***************************************************************************)
\* Every order in which `for id := range memoryPool` can visit the pool.
RECURSIVE Orderings(_)
Orderings(S) ==
    IF S = {} THEN { << >> }
    ELSE UNION { { << x >> \o rest : rest \in Orderings(S \ {x}) } : x \in S }

\* The random coinbase data of a block the node mines (24 random bytes).
CoinbaseData == {3}

\* A miner loop that mines only when the mempool holds a transaction.
\* The height of the tip the node started from: the node mines up to
\* MaxHeight blocks above it.
StartHeight ==
    CHOOSE h \in { e[1] : e \in tipLog } : \A e \in tipLog : h <= e[1]

MinerLoopWaits ==
    /\ ~crashed
    /\ miner.pc = "idle"
    /\ GetBestHeight(db, LastHash) < StartHeight + MaxHeight
    /\ DOMAIN memoryPool # {}
    /\ miner' = [IdleMiner EXCEPT !.pc = "collect"]
    /\ UNCHANGED << db, lh, LastHash, utxo, memoryPool, miningInterrupt, blocksInTransit, sent, knownNodes,
                    handlers, now, crashed, net, peerChain, tipLog >>

\* miningLoop: mining has not been stopped; the loop reads whether the
\* mempool holds transactions and calls mineTransactions whether it does or
\* not (hasTxs || true).
MinerLoop ==
    /\ ~crashed
    /\ miner.pc = "idle"
    /\ GetBestHeight(db, LastHash) < StartHeight + MaxHeight
    /\ (DOMAIN memoryPool # {} \/ TRUE)
    /\ miner' = [IdleMiner EXCEPT !.pc = "collect"]
    /\ UNCHANGED << db, lh, LastHash, utxo, memoryPool, miningInterrupt, blocksInTransit, sent, knownNodes,
                    handlers, now, crashed, net, peerChain, tipLog >>

\* mineTransactions up to the call of MineBlockWithInterrupt: under the
\* mempool lock, the pool's transactions that verify against the chain, then
\* the coinbase for the height after the in-memory tip.
MinerCollect ==
    /\ ~crashed
    /\ miner.pc = "collect"
    /\ LET walk == Walk(db, LastHash)
           verdict == [id \in DOMAIN memoryPool |-> VerifyTransaction(walk, memoryPool[id])]
           valid == { id \in DOMAIN memoryPool : verdict[id] = "true" }
           newHeight == GetBestHeight(db, LastHash) + 1
       IN  IF \E id \in DOMAIN memoryPool : verdict[id] = "panic"
           THEN crashed' = TRUE /\ miner' = miner
           ELSE IF \E id \in DOMAIN memoryPool : verdict[id] = "loop"
           THEN crashed' = crashed /\ miner' = [miner EXCEPT !.pc = "stuck"]
           ELSE /\ crashed' = crashed
                /\ \E order \in Orderings(valid), data \in CoinbaseData :
                      miner' = [IdleMiner EXCEPT
                                  !.pc = "mine",
                                  !.txs = [k \in 1..Len(order) |-> memoryPool[order[k]]]
                                          \o << CoinbaseTX(MinerKey, data, newHeight) >>]
    /\ UNCHANGED << db, lh, LastHash, utxo, memoryPool, miningInterrupt, blocksInTransit, sent, knownNodes,
                    handlers, now, net, peerChain, tipLog >>

\* MineBlockWithInterrupt up to the search: every transaction must verify,
\* the parent is the block under "lh", and CreateBlockWithInterrupt stamps
\* the block with the clock and stores the merkle root.
MinerPrepare ==
    /\ ~crashed
    /\ miner.pc = "mine"
    /\ LET walk == Walk(db, LastHash)
           verdicts == { VerifyTransaction(walk, miner.txs[k]) : k \in 1..Len(miner.txs) }
           lastBlock == Deserialize(db[lh])
           tree == NewMerkleTree([k \in 1..Len(miner.txs) |-> SerializeTx(miner.txs[k])])
       IN  IF verdicts \cap {"panic", "false"} # {}
           THEN crashed' = TRUE /\ miner' = miner /\ now' = now
           ELSE IF "loop" \in verdicts
           THEN crashed' = crashed /\ miner' = [miner EXCEPT !.pc = "stuck"] /\ now' = now
           ELSE IF tree.status = "panic"
           THEN crashed' = TRUE /\ miner' = miner /\ now' = now
           ELSE /\ crashed' = crashed
                /\ \E t \in now..MaxTime :
                     /\ now' = t
                     /\ miner' = [miner EXCEPT
                                    !.pc = "poll",
                                    !.nonce = 0,
                                    !.block = NewProof(Block(t, NilBytes, miner.txs, lh, 0,
                                                  lastBlock.Height + 1, Difficulty,
                                                  HashTransactions(miner.txs))).Block]
    /\ UNCHANGED << db, lh, LastHash, utxo, memoryPool, miningInterrupt, blocksInTransit, sent, knownNodes,
                    handlers, net, peerChain, tipLog >>

\* A cancelled search after which mineTransactions goes on to its cleanup of
\* the mempool.
MinerPollThenCleanup ==
    /\ ~crashed
    /\ miner.pc = "poll"
    /\ miner.nonce % checkInterval = 0
    /\ \E t \in now..MaxTime :
         /\ now' = t
         /\ IF miningInterrupt > 0
            THEN /\ miningInterrupt' = miningInterrupt - 1
                 /\ miner' = [IdleMiner EXCEPT !.outcome = "cancelled",
                                                !.nonce = miner.nonce]
                 /\ memoryPool' = [id \in DOMAIN memoryPool \
                                        { miner.txs[k].ID : k \in 1..Len(miner.txs) }
                                     |-> memoryPool[id]]
            ELSE /\ miningInterrupt' = miningInterrupt
                 /\ miner' = [miner EXCEPT !.pc = "hash", !.block.Timestamp = t]
                 /\ memoryPool' = memoryPool
    /\ UNCHANGED << db, lh, LastHash, utxo, blocksInTransit, sent, knownNodes,
                    handlers, crashed, net, peerChain, tipLog >>

\* A poll that does not look at the channel.
MinerPollBlind ==
    /\ ~crashed
    /\ miner.pc = "poll"
    /\ miner.nonce % checkInterval = 0
    /\ \E t \in now..MaxTime :
         /\ now' = t
         /\ miner' = [miner EXCEPT !.pc = "hash", !.block.Timestamp = t]
    /\ UNCHANGED << db, lh, LastHash, utxo, memoryPool, miningInterrupt, blocksInTransit, sent, knownNodes,
                    handlers, crashed, net, peerChain, tipLog >>

\* RunWithInterrupt at a nonce that is a multiple of checkInterval: the
\* timestamp is refreshed, then the channel is polled.  A token ends the
\* search with (0, nil): CreateBlockWithInterrupt and MineBlockWithInterrupt
\* return nil and mineTransactions returns.  The miner at rest keeps the
\* nonce at which the search was interrupted (the one the code logs).
MinerPoll ==
    /\ ~crashed
    /\ miner.pc = "poll"
    /\ miner.nonce % checkInterval = 0
    /\ \E t \in now..MaxTime :
         /\ now' = t
         /\ IF miningInterrupt > 0
            THEN /\ miningInterrupt' = miningInterrupt - 1
                 /\ miner' = [IdleMiner EXCEPT !.outcome = "cancelled",
                                                !.nonce = miner.nonce]
            ELSE /\ miningInterrupt' = miningInterrupt
                 /\ miner' = [miner EXCEPT !.pc = "hash", !.block.Timestamp = t]
    /\ UNCHANGED << db, lh, LastHash, utxo, memoryPool, blocksInTransit, sent, knownNodes,
                    handlers, crashed, net, peerChain, tipLog >>

\* The iterations from nonce n (a multiple of timestampInterval, timestamp
\* already refreshed) to the next poll: each stretch of timestampInterval
\* nonces either holds the first valid nonce or ends in a refresh of the
\* timestamp from the clock.
RECURSIVE RunOutcomes(_, _, _)
RunOutcomes(block, n, clock) ==
    LET first == FirstValidNonce(NewProof(block), n, n + timestampInterval - 1)
    IN  IF first # -1
        THEN { [found |-> TRUE, nonce |-> first, block |-> block, clock |-> clock] }
        ELSE IF (n + timestampInterval) % checkInterval = 0
        THEN { [found |-> FALSE, nonce |-> n + timestampInterval, block |-> block,
                clock |-> clock] }
        ELSE UNION { RunOutcomes([block EXCEPT !.Timestamp = t], n + timestampInterval, t)
                     : t \in clock..MaxTime }

\* A search that reads the clock into the block once more after the valid
\* digest was computed.
MinerHashRestamp ==
    /\ ~crashed
    /\ miner.pc = "hash"
    /\ \E o \in RunOutcomes(miner.block, miner.nonce, now) :
         \E t \in o.clock..MaxTime :
         /\ now' = t
         /\ miner' = IF o.found
                     THEN [miner EXCEPT !.pc = "found", !.nonce = o.nonce,
                                        !.block = [o.block EXCEPT
                                           !.Hash = Sha256(InitData(o.block, o.nonce)),
                                           !.Nonce = o.nonce,
                                           !.Timestamp = t]]
                     ELSE [miner EXCEPT !.pc = "poll", !.nonce = o.nonce, !.block = o.block]
    /\ UNCHANGED << db, lh, LastHash, utxo, memoryPool, miningInterrupt, blocksInTransit, sent, knownNodes,
                    handlers, crashed, net, peerChain, tipLog >>

\* RunWithInterrupt between two polls.  A valid nonce ends the search:
\* CreateBlockWithInterrupt writes the hash and the nonce into the block.
MinerHash ==
    /\ ~crashed
    /\ miner.pc = "hash"
    /\ \E o \in RunOutcomes(miner.block, miner.nonce, now) :
         /\ now' = o.clock
         /\ miner' = IF o.found
                     THEN [miner EXCEPT !.pc = "found", !.nonce = o.nonce,
                                        !.block = [o.block EXCEPT
                                           !.Hash = Sha256(InitData(o.block, o.nonce)),
                                           !.Nonce = o.nonce]]
                     ELSE [miner EXCEPT !.pc = "poll", !.nonce = o.nonce, !.block = o.block]
    /\ UNCHANGED << db, lh, LastHash, utxo, memoryPool, miningInterrupt, blocksInTransit, sent, knownNodes,
                    handlers, crashed, net, peerChain, tipLog >>

\* The tip key written first, the block not yet.
MinerPutBlockTipFirst ==
    /\ ~crashed
    /\ miner.pc = "found"
    /\ lh' = miner.block.Hash
    /\ miner' = [miner EXCEPT !.pc = "putlh"]
    /\ UNCHANGED << db, LastHash, utxo, memoryPool, miningInterrupt, blocksInTransit, sent, knownNodes,
                    handlers, now, crashed, net, peerChain, tipLog >>

\* chain.Database.Put(newBlock.Hash, newBlock.Serialize())
MinerPutBlock ==
    /\ ~crashed
    /\ miner.pc = "found"
    /\ db' = MapPut(db, miner.block.Hash, Serialize(miner.block))
    /\ miner' = [miner EXCEPT !.pc = "putlh"]
    /\ UNCHANGED << lh, LastHash, utxo, memoryPool, miningInterrupt, blocksInTransit, sent, knownNodes,
                    handlers, now, crashed, net, peerChain, tipLog >>

\* chain.Database.Put("lh", newBlock.Hash)
MinerPutLh ==
    /\ ~crashed
    /\ miner.pc = "putlh"
    /\ lh' = miner.block.Hash
    /\ tipLog' = tipLog \cup { << miner.block.Height, miner.block.Hash >> }
    /\ miner' = [miner EXCEPT !.pc = "setlast"]
    /\ UNCHANGED << db, LastHash, utxo, memoryPool, miningInterrupt, blocksInTransit, sent, knownNodes,
                    handlers, now, crashed, net, peerChain >>

\* chain.LastHash = newBlock.Hash; back in mineTransactions the mempool lock
\* is taken.
MinerSetLast ==
    /\ ~crashed
    /\ miner.pc = "setlast"
    /\ LastHash' = miner.block.Hash
    /\ miner' = [miner EXCEPT !.pc = "reindex"]
    /\ UNCHANGED << db, lh, utxo, memoryPool, miningInterrupt, blocksInTransit, sent, knownNodes,
                    handlers, now, crashed, net, peerChain, tipLog >>

MinerReindexDelete ==
    /\ ~crashed
    /\ miner.pc = "reindex"
    /\ utxo' = DeleteByPrefix
    /\ miner' = [miner EXCEPT !.pc = "find"]
    /\ UNCHANGED << db, lh, LastHash, memoryPool, miningInterrupt, blocksInTransit, sent, knownNodes,
                    handlers, now, crashed, net, peerChain, tipLog >>

MinerReindexFind ==
    /\ ~crashed
    /\ miner.pc = "find"
    /\ LET walk == Walk(db, LastHash)
       IN  /\ crashed' = (walk.status = "panic")
           /\ miner' = [miner EXCEPT
                 !.pc = IF walk.status = "ok" THEN "put"
                        ELSE IF walk.status = "loop" THEN "stuck" ELSE @,
                 !.UTXO = IF walk.status = "ok" THEN FindAllUTXO(walk.blocks) ELSE @]
    /\ UNCHANGED << db, lh, LastHash, utxo, memoryPool, miningInterrupt, blocksInTransit, sent, knownNodes,
                    handlers, now, net, peerChain, tipLog >>

MinerReindexPut ==
    /\ ~crashed
    /\ miner.pc = "put"
    /\ utxo' = ReindexPut(utxo, miner.UTXO)
    /\ miner' = [miner EXCEPT !.pc = "cleanup"]
    /\ UNCHANGED << db, lh, LastHash, memoryPool, miningInterrupt, blocksInTransit, sent, knownNodes,
                    handlers, now, crashed, net, peerChain, tipLog >>

\* The end of mineTransactions: the mined transactions leave the mempool and
\* BroadcastBlock announces the block to the known nodes.
MinerCleanup ==
    /\ ~crashed
    /\ miner.pc = "cleanup"
    /\ LET mined == { miner.txs[k].ID : k \in { j \in 1..Len(miner.txs) :
                                                  ~IsCoinbase(miner.txs[j]) } }
       IN  memoryPool' = [id \in DOMAIN memoryPool \ mined |-> memoryPool[id]]
    /\ net' = net \cup { sendInv(Peer, << miner.block.Hash >>) }
    /\ miner' = [IdleMiner EXCEPT !.outcome = "mined"]
    /\ UNCHANGED << db, lh, LastHash, utxo, miningInterrupt, blocksInTransit, sent, knownNodes,
                    handlers, now, crashed, peerChain, tipLog >>

(***************************************************************************)
(* The mining node: the miner goroutine and a connection goroutine that    *)
(* serves the block and tx messages of honest peers.                       *)
(***************************************************************************)
MinerStep ==
    \/ MinerLoop
    \/ MinerCollect
    \/ MinerPrepare
    \/ MinerPoll
    \/ MinerHash
    \/ MinerPutBlock
    \/ MinerPutLh
    \/ MinerSetLast
    \/ MinerReindexDelete
    \/ MinerReindexFind
    \/ MinerReindexPut
    \/ MinerCleanup

\* addBlock after the checks, and the end of handleBlock.
FinishBlock(i) ==
    \/ AddBlockPutLh(i)
    \/ AddBlockSetLast(i)
    \/ HandlerReindexDelete(i)
    \/ HandlerReindexFind(i)
    \/ HandlerReindexPut(i)
    \/ AddBlockSignal(i)

Next ==
    \/ MinerStep
    \/ HandleHonestBlock(1)
    \/ FinishBlock(1)
    \/ HandleTx(1)

Spec == Init /\ [][Next]_vars

(***************************************************************************)
(* The mining node that hears no block of a peer and receives the tx       *)
(* messages of any peer.                                                   *)
(***************************************************************************)
NextPool ==
    \/ MinerStep
    \/ HandleAnyTx(1)

SpecPool == Init /\ [][NextPool]_vars

(***************************************************************************)
(* The node without a miner (no -miner flag): NumHandlers connection       *)
(* goroutines serve the block messages of any peer.                        *)
(***************************************************************************)
NextNet ==
    \E i \in 1..NumHandlers :
        \/ HandleBlock(i)
        \/ FinishBlock(i)

SpecNet == Init /\ [][NextNet]_vars

(***************************************************************************)
(* The node without a miner that follows one honest peer for MaxAccepted   *)
(* blocks: every accepted block sends a token and nothing takes one.       *)
(***************************************************************************)
HandleChainBlock(i) ==
    /\ \E p \in StoredBlocks(db) :
          /\ p.Hash = lh
          /\ p.Height < MaxAccepted
          /\ ReceiveBlock(i, Serialize(PeerChild(p)))
    /\ net' = net

NextChan ==
    \/ HandleChainBlock(1)
    \/ FinishBlock(1)

SpecChan == Init /\ [][NextChan]_vars

(***************************************************************************)
(* The node without a miner, served by a peer that forges the content of   *)
(* its blocks: the proof of work of every block is valid and every block   *)
(* extends the tip.                                                        *)
(***************************************************************************)
\* A block mined like an honest one whose hash field then carries the hash
\* of the genesis block.
MislabelledChild(parent) ==
    [PeerChild(parent) EXCEPT !.Hash = Genesis.Hash]

\* A block whose difficulty field is 0, sent with the first nonce tried.
EasyChild(parent) ==
    LET b == Block(1, NilBytes, PeerTxs[parent.Height + 1], parent.Hash, 0,
                   parent.Height + 1, 0, PeerRoot[parent.Height + 1])
    IN  [b EXCEPT !.Hash = Sha256(InitData(b, 0))]

ForgedBlocks(store) ==
    HonestBlocks(store)
        \cup { BadRewardChild(p) : p \in Extendable(store) }
        \cup { DanglingChild(p) : p \in Extendable(store) }
        \cup { MislabelledChild(p) : p \in Extendable(store) }
        \cup { EasyChild(p) : p \in Extendable(store) }

HandleForgedBlock(i) ==
    /\ \E b \in ForgedBlocks(db) : ReceiveBlock(i, Serialize(b))
    /\ net' = net

NextForge ==
    \E i \in 1..NumHandlers :
        \/ HandleForgedBlock(i)
        \/ FinishBlock(i)

SpecForge == Init /\ [][NextForge]_vars

(***************************************************************************)
(* The mining node next to a peer that mines the transfer the node holds   *)
(* in its mempool: the peer's block carries the transfer and, last, the    *)
(* peer's coinbase, as mineTransactions builds it.                         *)
(***************************************************************************)
RelayTxs == [h \in PeerHeights |-> << Honest, CoinbaseTX(OtherKey, 1, h) >>]
RelayRoot == [h \in PeerHeights |-> HashTransactions(RelayTxs[h])]

RelayChild(parent) ==
    Run(Block(1, NilBytes, RelayTxs[parent.Height + 1], parent.Hash, 0,
              parent.Height + 1, Difficulty, RelayRoot[parent.Height + 1]))

HandleRelayBlock(i) ==
    /\ \E p \in Extendable(db) : ReceiveBlock(i, Serialize(RelayChild(p)))
    /\ net' = net

NextRelay ==
    \/ MinerStep
    \/ HandleTx(1)
    \/ HandleRelayBlock(1)
    \/ FinishBlock(1)

SpecRelay == Init /\ [][NextRelay]_vars

(***************************************************************************)
(* The node without a miner behind a peer that builds a ledger: every      *)
(* block carries one or two transfers, each spending an output that exists *)
(* in the chain or earlier in the same block and that nothing has spent,   *)
(* and ends with a coinbase of its own.                                    *)
(***************************************************************************)
\* The transfers of the peer.  Honest has two outputs (10 to the other key,
\* 40 back to the miner's key); Split pays the genesis reward to the miner's
\* key in two outputs.
SpendFirst == SignedTx(Honest, 0, OtherKey, << TXOutput(10, HashPubKey(MinerKey)) >>)
SpendSecond == SignedTx(Honest, 1, MinerKey, << TXOutput(40, HashPubKey(OtherKey)) >>)
Split ==
    SignedTx(Genesis.Transactions[1], 0, MinerKey,
             << TXOutput(20, HashPubKey(MinerKey)), TXOutput(30, HashPubKey(MinerKey)) >>)

\* One transaction spending both outputs of Split (NewTransaction with
\* FindSpendableOutputs returning both, Transaction.Sign on every input).
SpendBoth ==
    LET unsigned == [ID |-> NilBytes,
                     Inputs |-> << TXInput(Split.ID, 0, NilBytes, MinerKey),
                                   TXInput(Split.ID, 1, NilBytes, MinerKey) >>,
                     Outputs |-> << TXOutput(50, HashPubKey(OtherKey)) >>]
        tx == [unsigned EXCEPT !.ID = TxHash(unsigned)]
    IN  [tx EXCEPT !.Inputs[1].Signature = Sign(MinerKey, SigningDigest(tx, 1, Split)),
                   !.Inputs[2].Signature = Sign(MinerKey, SigningDigest(tx, 2, Split))]

\* The first output of Split alone, spent by its owner.
SpendSplitFirst == SignedTx(Split, 0, MinerKey, << TXOutput(20, HashPubKey(OtherKey)) >>)

LedgerUniverse == { Honest, SpendFirst, SpendSecond, Split, SpendBoth, SpendSplitFirst }

\* tx can follow the blocks: it is new, and each of its inputs names an
\* output of the blocks that no transaction of the blocks spends.
Applicable(tx, blocks) ==
    /\ \A k \in 1..Len(blocks) : \A t \in 1..Len(blocks[k].Transactions) :
          blocks[k].Transactions[t].ID # tx.ID
    /\ \A n \in 1..Len(tx.Inputs) :
          Resolves(tx.Inputs[n], blocks) /\ ~SpentIn(tx.Inputs[n], blocks)

\* The transfer lists of a block on the chain `blocks`.
LedgerLists(blocks) ==
    LET first == { t \in LedgerUniverse : Applicable(t, blocks) }
        second(a) == { t \in LedgerUniverse :
                         Applicable(t, << [Transactions |-> << a >>] >> \o blocks) }
    IN  { << a >> : a \in first }
            \cup UNION { { << a, b >> : b \in second(a) } : a \in first }

\* The block the peer mines on parent with the transfers and its coinbase.
LedgerChild(parent, txs) ==
    MinedBlock(txs \o << CoinbaseTX(OtherKey, 10 + parent.Height + 1, parent.Height + 1) >>,
               parent.Hash, parent.Height + 1, Difficulty, 1)

LedgerBlocks(store) ==
    { LedgerChild(p, l) :
        p \in { q \in StoredBlocks(store) : q.Hash = lh /\ q.Height < MaxLedger },
        l \in LedgerLists(Walk(store, lh).blocks) }

HandleLedgerBlock(i) ==
    /\ \E b \in LedgerBlocks(db) : ReceiveBlock(i, Serialize(b))
    /\ net' = net

NextLedger ==
    \/ HandleLedgerBlock(1)
    \/ FinishBlock(1)

SpecLedger == Init /\ [][NextLedger]_vars

(***************************************************************************)
(* The mining node up to the start of a search, with peers that send up to *)
(* MaxPayments transfers: mineTransactions collects the mempool and        *)
(* CreateBlockWithInterrupt computes the merkle root of what it collected. *)
(***************************************************************************)
\* Transfers of 1..MaxPayments coins out of the genesis reward; each one
\* carries a signature of the miner's key and verifies against the chain.
Payments ==
    { Transfer(Genesis.Transactions[1], 0, MinerKey, OtherKey, a) : a \in 1..MaxPayments }

HandlePaymentTx(i) ==
    /\ ~crashed
    /\ Handler(i).pc = "idle"
    /\ ~MinerHoldsMempool
    /\ \E t \in Payments :
          memoryPool' = MapPut(memoryPool, t.ID, t)
    /\ UNCHANGED << db, lh, LastHash, utxo, miningInterrupt, blocksInTransit, sent, knownNodes,
                    miner, handlers, now, crashed, net, peerChain, tipLog >>

NextMerkle ==
    \/ MinerLoop
    \/ MinerCollect
    \/ MinerPrepare
    \/ HandlePaymentTx(1)

SpecMerkle == Init /\ [][NextMerkle]_vars

(***************************************************************************)
(* The mining node restarted on a long chain (ContinueBlockchain): the tip *)
(* is at the start, just after the start or just before the end of one of  *)
(* the reward eras 0..MaxEra.  Of the store the model holds the tip block   *)
(* only; the miner's steps up to the start of the search read no other     *)
(* block while the mempool is empty.                                       *)
(***************************************************************************)
RewardTips ==
    { h \in UNION { { e * HalvingInterval - 1, e * HalvingInterval,
                      (e + 1) * HalvingInterval - 2 } : e \in 0..MaxEra } : h >= 0 }

\* The block a peer mined at the height.
RewardTip(h) ==
    IF h = 0 THEN Genesis
    ELSE MinedBlock(<< CoinbaseTX(OtherKey, 1, h) >>, Sha256(<< h >>), h, Difficulty, 0)

InitReward ==
    /\ \E h \in RewardTips : InitNode(<< RewardTip(h) >>)
    /\ InitWire(<< >>, Peer)
    /\ peerChain = << >>

NextReward ==
    \/ MinerLoop
    \/ MinerCollect
    \/ MinerPrepare

SpecReward == InitReward /\ [][NextReward]_vars

(***************************************************************************)
(* Initial block download.  The node starts on a prefix of the chain of a  *)
(* peer that mines no further blocks, and opens the handshake as           *)
(* Server.Start does, with a version message to the peer.  The peer runs   *)
(* the same handlers on its own chain.                                     *)
(***************************************************************************)
\* The chain of the peer up to a height, tip first.
PeerChainTo(height) == ChainOn(<< Genesis >>, height + 1)

\* getBlocks: the hashes from the tip back to genesis.
getBlocks(blocks) == [k \in 1..Len(blocks) |-> blocks[k].Hash]

\* getBlock: the block of the chain with the hash, if there is one.
getBlock(blocks, hash) == { blocks[k] : k \in { j \in 1..Len(blocks) : blocks[j].Hash = hash } }

\* nodeIsKnown
nodeIsKnown(known, addr) == \E k \in 1..Len(known) : known[k] = addr

\* A handleVersion that answers every version from a node at another height
\* with a version of its own.
handleVersionAnswersAll(from, bestHeight, otherHeight, known) ==
    LET reply == IF bestHeight < otherHeight
                 THEN << sendGetBlocks(from), sendVersion(from, bestHeight) >>
                 ELSE IF bestHeight > otherHeight THEN << sendVersion(from, bestHeight) >>
                 ELSE << >>
        nodes == IF nodeIsKnown(known, from) THEN known ELSE Append(known, from)
    IN  [msgs |-> reply \o << sendAddr(from, nodes) >>, knownNodes |-> nodes]

\* handleVersion in a process at bestHeight whose knownNodes is `known`, on a
\* version message from `from` that reports otherHeight: the messages it
\* sends, in order, and knownNodes afterwards.
handleVersion(from, bestHeight, otherHeight, known) ==
    LET reply == IF bestHeight < otherHeight THEN << sendGetBlocks(from) >>
                 ELSE IF bestHeight > otherHeight THEN << sendVersion(from, bestHeight) >>
                 ELSE << >>
        nodes == IF nodeIsKnown(known, from) THEN known ELSE Append(known, from)
    IN  [msgs |-> reply \o << sendAddr(from, nodes) >>, knownNodes |-> nodes]

\* handleAddr in the process nodeAddress: every address of the list that is
\* neither known nor its own is added to knownNodes and sent a version.
RECURSIVE handleAddr(_, _, _, _)
handleAddr(nodeAddress, AddrList, bestHeight, known) ==
    IF AddrList = << >> THEN [msgs |-> << >>, knownNodes |-> known]
    ELSE LET addr == Head(AddrList)
             new == ~nodeIsKnown(known, addr) /\ addr # nodeAddress
             rest == handleAddr(nodeAddress, Tail(AddrList), bestHeight,
                                IF new THEN Append(known, addr) ELSE known)
         IN  [msgs |-> (IF new THEN << sendVersion(addr, bestHeight) >> ELSE << >>)
                           \o rest.msgs,
              knownNodes |-> rest.knownNodes]

\* The handler of message m has sent msgs: m leaves the wire, msgs go on it
\* and into the history.
Answer(m, msgs) ==
    /\ net' = (net \ {m}) \cup { msgs[k] : k \in 1..Len(msgs) }
    /\ sent' = sent \o msgs

InitSync ==
    \E H \in 1..(MaxHeight + 1) : \E h \in 0..(H - 1) :
        /\ peerChain = PeerChainTo(H)
        /\ InitNode(SubSeq(peerChain, H - h + 1, H + 1))
        /\ InitWire(<< sendVersion(Peer, h) >>, Peer)

\* The peer serves one message: version, addr, getblocks or getdata.
PeerServe ==
    /\ ~crashed
    /\ \E m \in net :
        /\ m.to = Peer
        /\ LET bestHeight == peerChain[1].Height
               found == getBlock(peerChain, m.items[1])
               out == IF m.cmd = "version"
                        THEN handleVersion(Node, bestHeight, m.height, knownNodes[Peer])
                      ELSE IF m.cmd = "addr"
                        THEN handleAddr(Peer, m.items, bestHeight, knownNodes[Peer])
                      ELSE IF m.cmd = "getblocks"
                        THEN [msgs |-> << sendInv(Node, getBlocks(peerChain)) >>,
                              knownNodes |-> knownNodes[Peer]]
                      ELSE IF m.cmd = "getdata" /\ found # {}
                        THEN [msgs |-> << sendBlock(Node, CHOOSE b \in found : TRUE) >>,
                              knownNodes |-> knownNodes[Peer]]
                      ELSE [msgs |-> << >>, knownNodes |-> knownNodes[Peer]]
           IN  /\ Answer(m, out.msgs)
               /\ knownNodes' = [knownNodes EXCEPT ![Peer] = out.knownNodes]
    /\ UNCHANGED << db, lh, LastHash, utxo, memoryPool, miningInterrupt, blocksInTransit,
                    miner, handlers, now, crashed, peerChain, tipLog >>

\* handleVersion on the node.
HandleVersion(i) ==
    /\ ~crashed
    /\ Handler(i).pc = "idle"
    /\ \E m \in net :
        /\ m.to = Node
        /\ m.cmd = "version"
        /\ LET out == handleVersion(Peer, GetBestHeight(db, LastHash), m.height,
                                    knownNodes[Node])
           IN  /\ Answer(m, out.msgs)
               /\ knownNodes' = [knownNodes EXCEPT ![Node] = out.knownNodes]
    /\ UNCHANGED << db, lh, LastHash, utxo, memoryPool, miningInterrupt, blocksInTransit,
                    miner, handlers, now, crashed, peerChain, tipLog >>

\* handleAddr on the node.
HandleAddr(i) ==
    /\ ~crashed
    /\ Handler(i).pc = "idle"
    /\ \E m \in net :
        /\ m.to = Node
        /\ m.cmd = "addr"
        /\ LET out == handleAddr(Node, m.items, GetBestHeight(db, LastHash),
                                 knownNodes[Node])
           IN  /\ Answer(m, out.msgs)
               /\ knownNodes' = [knownNodes EXCEPT ![Node] = out.knownNodes]
    /\ UNCHANGED << db, lh, LastHash, utxo, memoryPool, miningInterrupt, blocksInTransit,
                    miner, handlers, now, crashed, peerChain, tipLog >>

\* handleInv for a block inventory: the first item is requested and every
\* other item is left in transit.
HandleInv(i) ==
    /\ ~crashed
    /\ Handler(i).pc = "idle"
    /\ \E m \in net :
        /\ m.to = Node
        /\ m.cmd = "inv"
        /\ net' = (net \ {m}) \cup { sendGetData(Peer, m.items[1]) }
        /\ sent' = Append(sent, sendGetData(Peer, m.items[1]))
        /\ knownNodes' = knownNodes
        /\ blocksInTransit' = SelectSeq(m.items, LAMBDA b : b # m.items[1])
    /\ UNCHANGED << db, lh, LastHash, utxo, memoryPool, miningInterrupt,
                    miner, handlers, now, crashed, peerChain, tipLog >>

NextSync ==
    \/ PeerServe
    \/ HandleVersion(1)
    \/ HandleAddr(1)
    \/ HandleInv(1)
    \/ HandleBlockReply(1)
    \/ FinishBlock(1)
    \/ HandleBlockNext(1)

SpecSync == InitSync /\ [][NextSync]_vars

\* The drain is over: no message is under way, nothing is in transit and
\* the connection goroutines are back at rest.
SyncDone ==
    /\ net = {}
    /\ Len(blocksInTransit) = 0
    /\ \A i \in 1..NumHandlers : Handler(i).pc = "idle"

(***************************************************************************)
(* Properties.                                                             *)
(***************************************************************************)
TypeOK == miningInterrupt \in 0..InterruptCap

HeightOf(hash) == Deserialize(db[hash]).Height

\* Connection goroutine i takes the step, on a block with one of the verdicts.
HandlerMoves(i) == handlers'[i] # handlers[i]
VerdictStep(i, verdicts) ==
    /\ HandlerMoves(i)
    /\ \/ Handler(i).verdict \in verdicts
       \/ handlers'[i].verdict \in verdicts

\* C1 as stated: from the arrival of a block whose height is not the tip
\* height + 1 to the end of its handler, the handler leaves the block store,
\* the persisted and the in-memory tip, the UTXO index and the miner's
\* channel unchanged.
C1_DropChangesNothing ==
    [][\A i \in 1..NumHandlers :
          VerdictStep(i, {"missing", "stale"})
              => UNCHANGED << db, lh, LastHash, utxo, miningInterrupt >>]_vars

\* C1 amended: the handler of a block whose height is not the tip height + 1
\* leaves the block store, the persisted and the in-memory tip and the
\* miner's channel unchanged, and addBlock leaves the UTXO index unchanged;
\* the only writes to the index are those of the rebuild that handleBlock
\* runs afterwards when no block is in transit.
C1_DropChangesOnlyIndexRebuild ==
    [][\A i \in 1..NumHandlers :
          VerdictStep(i, {"missing", "stale"})
              => /\ UNCHANGED << db, lh, LastHash, miningInterrupt >>
                 /\ Handler(i).pc = "idle" => UNCHANGED utxo
                 /\ utxo' # utxo => /\ Handler(i).pc \in {"tail", "tailput"}
                                    /\ Len(blocksInTransit) = 0]_vars

\* A stale and a missing-blocks drop are both under way, one of them in the
\* middle of the rebuild.
C1_Witness ==
    /\ \E i \in 1..NumHandlers : Handler(i).verdict = "stale" /\ Handler(i).pc = "tailfind"
    /\ \E i \in 1..NumHandlers : Handler(i).verdict = "missing"

\* C2: a block of height tip + 1 whose digest, built from its stored merkle
\* root, difficulty and timestamp, is not below its target is rejected:
\* its handler writes nothing to the block store, leaves the persisted and
\* the in-memory tip unchanged and sends no token, and addBlock does not
\* rebuild the UTXO index.
C2_BadPowRejected ==
    [][\A i \in 1..NumHandlers :
          VerdictStep(i, {"badpow"})
              => /\ UNCHANGED << db, lh, LastHash, miningInterrupt >>
                 /\ Handler(i).pc = "idle" => UNCHANGED utxo]_vars

\* A block that fails the proof-of-work check has been dropped while the
\* tip is past genesis.
C2_Witness ==
    \E i \in 1..NumHandlers :
        /\ Handler(i).verdict = "badpow"
        /\ Handler(i).pc = "tail"
        /\ HeightOf(LastHash) > 0

\* C3: every stored block other than genesis has a prev_hash that is the key
\* of a stored block, and its height is that block's height + 1.
C3_PrevHashResolves ==
    \A b \in StoredBlocks(db) :
        Len(b.PrevHash) > 0 =>
            /\ b.PrevHash \in DOMAIN db
            /\ b.Height = HeightOf(b.PrevHash) + 1

\* C4: the walk from the in-memory tip and the walk from the persisted tip
\* both end at the genesis block, without a failed load and without a cycle.
C4_WalkEndsAtGenesis ==
    \A tip \in {LastHash, lh} :
        LET walk == Walk(db, tip)
        IN  /\ walk.status = "ok"
            /\ walk.blocks[Len(walk.blocks)] = Genesis

\* C5: the merkle_root field of every stored block is the Merkle root of the
\* block's own transactions.
C5_MerkleRootMatches ==
    \A b \in StoredBlocks(db) : b.MerkleRoot = HashTransactions(b.Transactions)

\* No goroutine is between the writes of a mining-persist or a
\* block-acceptance step.
NoPersistMidFlight ==
    /\ miner.pc \notin {"putlh", "setlast"}
    /\ \A i \in 1..NumHandlers : Handler(i).pc \notin {"putlh", "setlast"}

\* C6: whenever no persist or acceptance step is mid-flight, no stored block
\* is higher than the block under the persisted tip pointer.
C6_TipIsHighest ==
    NoPersistMidFlight => \A b \in StoredBlocks(db) : b.Height <= HeightOf(lh)

\* C7: no two different blocks of the same height are ever written to the
\* tip pointer.
C7_FirstAcceptedWins ==
    \A x \in tipLog : \A y \in tipLog : x[1] = y[1] => x[2] = y[2]

\* C8: when the drain that follows the handshake is over, the node's tip is
\* the peer's tip.
C8_DrainReachesPeerTip ==
    SyncDone => /\ lh = peerChain[1].Hash
                /\ LastHash = peerChain[1].Hash

\* C9: a search that ends in cancellation ends with a nil hash, and
\* mineTransactions then returns with the block store, the persisted and the
\* in-memory tip and the mempool as they were and with the hash of the
\* candidate block never set; no step of a search writes any of them; a
\* search that succeeds ends with a hash that is not nil.
C9_CancelledSearchChangesNothing ==
    [][/\ miner'.outcome = "cancelled" /\ miner.outcome # "cancelled"
            => /\ UNCHANGED << db, lh, LastHash, memoryPool, utxo >>
               /\ miner.pc = "poll"
               /\ Len(miner.block.Hash) = 0
               /\ miner.block.Hash \notin DOMAIN db
       /\ miner' # miner /\ miner.pc \in {"mine", "poll", "hash"}
            => UNCHANGED << db, lh, LastHash, memoryPool, utxo >>
       /\ miner'.pc = "found" => Len(miner'.block.Hash) > 0]_vars

\* A search was cancelled after transactions reached the mempool and a
\* block of a peer became the tip.
C9_Witness ==
    /\ miner.outcome = "cancelled"
    /\ DOMAIN memoryPool # {}
    /\ HeightOf(lh) > 0

\* C10: a search that was under way when a peer's block of the same height
\* was accepted never gets to persist its own block.
C10_OvertakenSearchNeverPersists ==
    miner.overtaken =>
        miner.pc \notin {"putlh", "setlast", "reindex", "find", "put", "cleanup"}

\* C11: a poll of the channel that finds a token takes exactly one token and
\* ends the search with the cancellation result; this holds at the first
\* poll (nonce 0) and at every later one (nonce 10000, 20000, ...), whenever
\* the token was placed.
C11_TokenSeenAtNextPoll ==
    [][miner.pc = "poll" /\ miner'.pc # "poll" /\ miningInterrupt > 0
           => /\ miner'.pc = "idle"
              /\ miner'.outcome = "cancelled"
              /\ miningInterrupt' = miningInterrupt - 1]_vars

\* A search was cancelled at a poll after the first one: the token arrived
\* while the search was running.
C11_Witness ==
    /\ miner.outcome = "cancelled"
    /\ miner.nonce >= checkInterval
    /\ miner.nonce % checkInterval = 0

\* The miner is in a search.
MinerSearching == miner.pc \in {"poll", "hash"}

\* Connection goroutine i passes the send at the end of addBlock.
SignalStep(i) == Handler(i).pc = "signal" /\ handlers'[i].pc # "signal"

SearchReturned ==
    miner.pc \in {"found", "putlh", "setlast", "reindex", "find", "put", "cleanup"}

\* The hash of a block is the digest of its preimage at its nonce, built from
\* its difficulty, stored merkle root and timestamp as they are now, and the
\* digest is below the target of the block's difficulty.
ValidAsStored(b) ==
    /\ b.Hash = Sha256(InitData(b, b.Nonce))
    /\ Validate(NewProofWithDifficulty(b, b.Difficulty))

\* C13: the block a successful search returns validates as it is, with the
\* target of the network difficulty; nothing rewrites it between the return
\* and the end of mineTransactions; and every block in the store of the
\* mining node validates as stored.
C13_ReturnedBlockValidates ==
    /\ [](/\ SearchReturned => /\ ValidAsStored(miner.block)
                               /\ Validate(NewProof(miner.block))
          /\ \A b \in StoredBlocks(db) : ValidAsStored(b))
    /\ [][SearchReturned /\ SearchReturned' => miner'.block = miner.block]_vars

\* A search returned a block after the timestamp refresh at a later nonce
\* than 0, and the block was stored.
C13_Witness ==
    /\ miner.pc = "putlh"
    /\ miner.block.Nonce >= timestampInterval
    /\ miner.block.Timestamp = MaxTime
    /\ miner.block.Hash \in DOMAIN db

\* C14: the outputs of every coinbase transaction of every stored block sum
\* to the reward of the block's own height.
C14_CoinbasePaysReward ==
    \A b \in StoredBlocks(db) :
        \A k \in 1..Len(b.Transactions) :
            IsCoinbase(b.Transactions[k])
                => SumValues(b.Transactions[k].Outputs) = GetBlockReward(b.Height)

\* C15: every stored block has at least one transaction, its first
\* transaction is a coinbase and none of the others is.
C15_CoinbaseFirstAndOnly ==
    \A b \in StoredBlocks(db) :
        /\ Len(b.Transactions) >= 1
        /\ IsCoinbase(b.Transactions[1])
        /\ \A k \in 2..Len(b.Transactions) : ~IsCoinbase(b.Transactions[k])

RECURSIVE IndexTotal(_)
IndexTotal(index) ==
    IF DOMAIN index = {} THEN 0
    ELSE LET id == CHOOSE k \in DOMAIN index : TRUE
         IN  SumValues(DeserializeOutputs(index[id]))
                 + IndexTotal([k \in DOMAIN index \ {id} |-> index[k]])

\* The sum of the rewards of the heights 0..height.
RECURSIVE Supply(_)
Supply(height) ==
    IF height < 0 THEN 0 ELSE GetBlockReward(height) + Supply(height - 1)

\* C17: the values in the UTXO index sum to at most the rewards of the
\* heights up to the tip.
C17_IndexWithinSupply == IndexTotal(utxo) <= Supply(HeightOf(LastHash))

\* C18: every input of every transaction that is not a coinbase, in every
\* stored block, refers to an output of a transaction in the chain that
\* ends at the block's predecessor.
C18_InputsResolve ==
    \A b \in StoredBlocks(db) :
        \A t \in 1..Len(b.Transactions) :
            ~IsCoinbase(b.Transactions[t]) =>
                \A n \in 1..Len(b.Transactions[t].Inputs) :
                    Resolves(b.Transactions[t].Inputs[n], Walk(db, b.PrevHash).blocks)

\* C19: no transaction that the miner takes from the mempool into its
\* working set spends an output that a transaction of the chain under the
\* in-memory tip has spent.
C19_SpentInputsLeftOut ==
    [][miner.pc = "collect" /\ miner'.pc = "mine"
          => \A k \in 1..Len(miner'.txs) :
                ~IsCoinbase(miner'.txs[k]) =>
                    \A n \in 1..Len(miner'.txs[k].Inputs) :
                        ~SpentIn(miner'.txs[k].Inputs[n], Walk(db, LastHash).blocks)]_vars

\* C20: a transaction enters the mempool only if it passes verification
\* against the chain under the in-memory tip at the moment it is inserted;
\* a tx message whose transaction fails verification leaves the mempool
\* unchanged.
C20_MempoolEntriesVerified ==
    [][\A id \in DOMAIN memoryPool' :
          (id \notin DOMAIN memoryPool \/ memoryPool'[id] # memoryPool[id])
              => VerifyTransaction(Walk(db, LastHash), memoryPool'[id]) = "true"]_vars

\* The ids of the transactions of a block that are not a coinbase.
IncludedIds(block) ==
    { block.Transactions[k].ID :
        k \in { j \in 1..Len(block.Transactions) : ~IsCoinbase(block.Transactions[j]) } }

\* C21: when the step that makes a block part of the local chain completes
\* (the end of mineTransactions for a mined block, the end of addBlock for
\* an accepted block), no transaction of the block is in the mempool, and
\* every other mempool transaction is still there.
C21_IncludedTxsLeaveMempool ==
    [][/\ miner.pc = "cleanup" /\ miner'.pc = "idle"
            => /\ DOMAIN memoryPool' \cap IncludedIds(miner.block) = {}
               /\ \A id \in DOMAIN memoryPool \ IncludedIds(miner.block) :
                     id \in DOMAIN memoryPool' /\ memoryPool'[id] = memoryPool[id]
       /\ \A i \in 1..NumHandlers :
            Handler(i).pc = "signal" /\ handlers'[i].pc # "signal"
                => /\ DOMAIN memoryPool' \cap IncludedIds(Handler(i).block) = {}
                   /\ \A id \in DOMAIN memoryPool \ IncludedIds(Handler(i).block) :
                         id \in DOMAIN memoryPool' /\ memoryPool'[id] = memoryPool[id]]_vars

\* The indices of the outputs of transaction id that an input of a
\* transaction of the blocks refers to.
ReferencedOuts(id, blocks) ==
    { o \in 0..3 : SpentIn([ID |-> id, Out |-> o], blocks) }

\* The index the specification describes: an entry for every transaction of
\* the blocks with an output that no input refers to, holding those outputs.
ReferenceIndex(blocks) ==
    LET txs == TxsOf(blocks)
        tx(id) == txs[CHOOSE i \in 1..Len(txs) : txs[i].ID = id]
        live(id) == UnspentOutputs(tx(id).Outputs, 0, ReferencedOuts(id, blocks))
    IN  [id \in { txs[i].ID : i \in { j \in 1..Len(txs) : Len(live(txs[j].ID)) > 0 } }
            |-> SerializeOutputs(live(id))]

\* No connection goroutine is between the delete and the put of a Reindex.
IndexSettled ==
    \A i \in 1..NumHandlers : Handler(i).pc \in {"idle", "signal", "tail"}

\* C22: after Reindex the index has an entry for a transaction exactly when
\* one of its outputs is referred to by no input of the chain, and the entry
\* holds exactly those outputs, also when a transaction of the same block
\* spends the output.
C22_ReindexMatchesChain ==
    IndexSettled => utxo = ReferenceIndex(Walk(db, LastHash).blocks)

\* C23: for a block B that a connection goroutine has stored on the tip,
\* Update(B) applied to the index of the chain before B succeeds and gives
\* the index that Reindex gives on the chain with B.  The chains compared
\* are those on which Reindex is exact before and after B.
C23_UpdateEqualsReindex ==
    \A i \in 1..NumHandlers :
        Handler(i).pc = "putlh" /\ Handler(i).block.PrevHash = LastHash =>
            LET B == Handler(i).block
                before == Walk(db, LastHash).blocks
                after == Walk(db, B.Hash).blocks
                reindexed == SerializeUTXO(FindAllUTXO(after))
                updated == Update(utxo, B)
            IN  utxo = ReferenceIndex(before) /\ reindexed = ReferenceIndex(after)
                    => updated.status = "ok" /\ updated.index = reindexed

\* The outputs that a selection names, read in the transactions themselves:
\* (id, o) is output o of the transaction id of the blocks.
RECURSIVE NamedOutputs(_, _)
NamedOutputs(unspentOuts, blocks) ==
    IF DOMAIN unspentOuts = {} THEN << >>
    ELSE LET id == CHOOSE k \in DOMAIN unspentOuts : TRUE
             tx == FindTransaction([status |-> "ok", blocks |-> blocks], id).tx
         IN  [k \in 1..Len(unspentOuts[id]) |-> tx.Outputs[unspentOuts[id][k] + 1]]
                 \o NamedOutputs([k \in DOMAIN unspentOuts \ {id} |-> unspentOuts[k]], blocks)

\* The sum of the values of the outputs of an index locked to pubKeyHash.
RECURSIVE LockedTotal(_, _)
LockedTotal(index, pubKeyHash) ==
    IF DOMAIN index = {} THEN 0
    ELSE LET id == CHOOSE k \in DOMAIN index : TRUE
         IN  SumValues(SelectSeq(DeserializeOutputs(index[id]),
                                 LAMBDA o : o.PubKeyHash = pubKeyHash))
                 + LockedTotal([k \in DOMAIN index \ {id} |-> index[k]], pubKeyHash)

\* C24: on an index that holds exactly the unspent outputs of the chain,
\* FindSpendableOutputs(pubKeyHash, amount) names only outputs (id, o) such
\* that output o of transaction id is locked to pubKeyHash and unspent; the
\* accumulated value is the sum of the named outputs; and it reaches the
\* amount whenever the unspent outputs locked to pubKeyHash do.
C24_SelectionNamesUnspentOutputs ==
    LET chain == Walk(db, LastHash).blocks
    IN  IndexSettled /\ utxo = ReferenceIndex(chain) =>
            \A pubKeyHash \in { HashPubKey(MinerKey), HashPubKey(OtherKey) } :
            \A amount \in { 1, 10, 40, 50 } :
                LET r == FindSpendableOutputs(utxo, pubKeyHash, amount)
                IN  /\ \A id \in DOMAIN r.unspentOuts :
                       \A k \in 1..Len(r.unspentOuts[id]) :
                          LET found == FindTransaction([status |-> "ok", blocks |-> chain], id)
                              o == r.unspentOuts[id][k]
                          IN  /\ found.status = "found"
                              /\ o \in 0..(Len(found.tx.Outputs) - 1)
                              /\ found.tx.Outputs[o + 1].PubKeyHash = pubKeyHash
                              /\ ~SpentIn([ID |-> id, Out |-> o], chain)
                    /\ r.accumulated = SumValues(NamedOutputs(r.unspentOuts, chain))
                    /\ LockedTotal(utxo, pubKeyHash) >= amount => r.accumulated >= amount

\* The merkle root the specification describes: the nodes of a level are
\* hashed two by two, the last node of a level of odd cardinality is paired
\* with itself, and a single node is the root.
RECURSIVE ReferencePairs(_)
ReferencePairs(nodes) ==
    IF Len(nodes) = 0 THEN << >>
    ELSE << MerkleInner(nodes[1], nodes[2]) >> \o ReferencePairs(SubSeq(nodes, 3, Len(nodes)))

RECURSIVE ReferenceLevels(_)
ReferenceLevels(nodes) ==
    IF Len(nodes) = 1 THEN nodes[1]
    ELSE ReferenceLevels(ReferencePairs(IF Len(nodes) % 2 # 0
                                        THEN Append(nodes, nodes[Len(nodes)])
                                        ELSE nodes))

ReferenceRoot(data) == ReferenceLevels([i \in 1..Len(data) |-> MerkleLeaf(data[i])])

\* C25: when the miner builds its block from the transactions it collected,
\* the merkle tree is built without a panic and the root stored in the block
\* is the reference root of the serializations.
C25_MerkleRootIsReference ==
    [][miner.pc = "mine" /\ (miner'.pc # "mine" \/ crashed')
          => /\ ~crashed'
             /\ miner'.block.MerkleRoot =
                    ReferenceRoot([k \in 1..Len(miner.txs) |-> SerializeTx(miner.txs[k])])]_vars

\* The coins minted over the eras 0..MaxEra, the reward of an era being the
\* reward of its first height.
RECURSIVE MintedUpTo(_)
MintedUpTo(era) ==
    IF era < 0 THEN 0
    ELSE HalvingInterval * GetBlockReward(era * HalvingInterval) + MintedUpTo(era - 1)

C27_KeyIsHeaderDigest ==
    /\ [](\A k \in DOMAIN db :
             k = Sha256(InitData(Deserialize(db[k]), Deserialize(db[k]).Nonce)))
    /\ [][\A k \in DOMAIN db : k \in DOMAIN db' /\ db'[k] = db[k]]_vars

\* C28: the genesis block is stored with difficulty GenesisDifficulty and
\* every other stored block with difficulty Difficulty.
C28_StoredDifficultyIsFixed ==
    \A b \in StoredBlocks(db) :
        b.Difficulty = IF b.Height = 0 THEN GenesisDifficulty ELSE Difficulty

\* The tasks that have written a block to the store and have not yet
\* assigned the in-memory tip: the miner (0) and the connection goroutines.
Mutating ==
    { i \in 1..NumHandlers : Handler(i).pc \in {"putlh", "setlast"} }
        \cup (IF miner.pc \in {"putlh", "setlast"} THEN {0} ELSE {})

\* C29: at most one task is between its block write and its assignment of
\* the in-memory tip.
C29_OneStoreWriter == Cardinality(Mutating) <= 1

\* C30: in every state, also between the block write and the tip write of
\* the miner or of a connection goroutine, the hash stored under the tip key
\* and the in-memory tip are keys of the block store, and the block under
\* the tip key carries that hash.
C30_TipKeyResolves ==
    /\ lh \in DOMAIN db
    /\ LastHash \in DOMAIN db
    /\ Deserialize(db[lh]).Hash = lh

\* The miner and a connection goroutine have each written a block and not
\* yet the tip key, which still names the block written before.
C30_Witness ==
    /\ miner.pc = "putlh"
    /\ miner.block.Hash \in DOMAIN db
    /\ \E i \in 1..NumHandlers :
          Handler(i).pc = "putlh" /\ Handler(i).block.Hash \in DOMAIN db
    /\ lh \notin { miner.block.Hash } \cup { Handler(i).block.Hash : i \in 1..NumHandlers }

\* No mining, acceptance or reindex step is in flight.
Quiescent ==
    /\ ~crashed
    /\ miner.pc = "idle"
    /\ \A i \in 1..NumHandlers : Handler(i).pc = "idle"

\* C31: when no mining, acceptance or reindex step is in flight, the index
\* is the one Reindex computes from the chain under the in-memory tip.
C31_IndexCatchesUp ==
    Quiescent => utxo = SerializeUTXO(FindAllUTXO(Walk(db, LastHash).blocks))

(***************************************************************************)
(* The drain of an inventory with the connection goroutines side by side.  *)
(* blocksInTransit is a package variable that handleInv and handleBlock    *)
(* read and write without a lock: each read and each write is a step.      *)
(* The peer has answered getblocks with the hashes of its chain and has    *)
(* then mined one more block, which it announces with an inventory of its  *)
(* own, as mineTransactions does.                                          *)
(***************************************************************************)
\* The inventory the peer sent in reply to getblocks: h1..hn.
Announced == getBlocks(Tail(peerChain))

\* The inventory the peer sends when it has mined its tip.
Broadcast == << peerChain[1].Hash >>

InitDrain ==
    /\ peerChain = PeerChainTo(MaxHeight)
    /\ InitNode(<< Genesis >>)
    /\ \E more \in { << >>, << sendInv(Node, Broadcast) >> } :
           InitWire(<< sendInv(Node, Announced) >> \o more, Peer)

\* handleInv: blocksInTransit = payload.Items; blockHash := payload.Items[0]
HandleInvStore(i) ==
    /\ ~crashed
    /\ Handler(i).pc = "idle"
    /\ \E m \in net :
        /\ m.to = Node
        /\ m.cmd = "inv"
        /\ net' = net \ {m}
        /\ blocksInTransit' = m.items
        /\ handlers' = [handlers EXCEPT ![i] =
             [IdleHandler EXCEPT !.pc = "invsend", !.blockHash = m.items[1]]]
    /\ UNCHANGED << db, lh, LastHash, utxo, memoryPool, miningInterrupt, sent, knownNodes,
                    miner, now, crashed, peerChain, tipLog >>

\* handleInv: s.sendGetData(payload.AddrFrom, InvTypeBlock, blockHash)
HandleInvRequest(i) ==
    /\ ~crashed
    /\ Handler(i).pc = "invsend"
    /\ net' = net \cup { sendGetData(Handler(i).from, Handler(i).blockHash) }
    /\ sent' = Append(sent, sendGetData(Handler(i).from, Handler(i).blockHash))
    /\ knownNodes' = knownNodes
    /\ SetHandler(i, "invfilter")
    /\ UNCHANGED << db, lh, LastHash, utxo, memoryPool, miningInterrupt, blocksInTransit,
                    miner, now, crashed, peerChain, tipLog >>

\* handleInv: the loop over blocksInTransit that leaves out blockHash, and
\* the assignment of its result.
HandleInvFilter(i) ==
    /\ ~crashed
    /\ Handler(i).pc = "invfilter"
    /\ blocksInTransit' = SelectSeq(blocksInTransit, LAMBDA b : b # Handler(i).blockHash)
    /\ handlers' = [handlers EXCEPT ![i] = IdleHandler]
    /\ UNCHANGED << db, lh, LastHash, utxo, memoryPool, miningInterrupt, sent, knownNodes,
                    miner, now, crashed, net, peerChain, tipLog >>

\* handleBlock after addBlock: if len(blocksInTransit) > 0
HandleBlockLen(i) ==
    /\ ~crashed
    /\ Handler(i).pc = "tail"
    /\ Len(blocksInTransit) > 0
    /\ SetHandler(i, "next")
    /\ UNCHANGED << db, lh, LastHash, utxo, memoryPool, miningInterrupt, blocksInTransit,
                    sent, knownNodes, miner, now, crashed, net, peerChain, tipLog >>

\* handleBlock: blockHash := blocksInTransit[0] and the getdata for it.  The
\* index is out of range when another goroutine has emptied the slice.
HandleBlockRequest(i) ==
    /\ ~crashed
    /\ Handler(i).pc = "next"
    /\ IF Len(blocksInTransit) = 0
       THEN /\ crashed' = TRUE
            /\ UNCHANGED << handlers, net, sent >>
       ELSE /\ crashed' = FALSE
            /\ handlers' = [handlers EXCEPT ![i].pc = "pop",
                                            ![i].blockHash = blocksInTransit[1]]
            /\ net' = net \cup { sendGetData(Handler(i).from, blocksInTransit[1]) }
            /\ sent' = Append(sent, sendGetData(Handler(i).from, blocksInTransit[1]))
    /\ UNCHANGED << db, lh, LastHash, utxo, memoryPool, miningInterrupt, blocksInTransit,
                    knownNodes, miner, now, peerChain, tipLog >>

\* handleBlock: blocksInTransit = blocksInTransit[1:], out of range on an
\* empty slice.
HandleBlockPop(i) ==
    /\ ~crashed
    /\ Handler(i).pc = "pop"
    /\ IF Len(blocksInTransit) = 0
       THEN /\ crashed' = TRUE
            /\ UNCHANGED << handlers, blocksInTransit >>
       ELSE /\ crashed' = FALSE
            /\ handlers' = [handlers EXCEPT ![i] = IdleHandler]
            /\ blocksInTransit' = Tail(blocksInTransit)
    /\ UNCHANGED << db, lh, LastHash, utxo, memoryPool, miningInterrupt, sent, knownNodes,
                    miner, now, net, peerChain, tipLog >>

DrainStep(i) ==
    \/ HandleInvStore(i)
    \/ HandleInvRequest(i)
    \/ HandleInvFilter(i)
    \/ HandleBlockReply(i)
    \/ FinishBlock(i)
    \/ HandleBlockLen(i)
    \/ HandleBlockRequest(i)
    \/ HandleBlockPop(i)

NextDrain ==
    \/ PeerServe
    \/ DrainStep(1)
    \/ DrainStep(2)

SpecDrain == InitDrain /\ [][NextDrain]_vars

\* The getdata messages sent for announced hashes, in the order of sending.
Requested ==
    LET getdata == SelectSeq(sent, LAMBDA m : m.to = Peer /\ m.cmd = "getdata")
    IN  [k \in 1..Len(getdata) |-> getdata[k].items[1]]
Asked == SelectSeq(Requested, LAMBDA h : \E k \in 1..Len(Announced) : Announced[k] = h)

IsPrefix(s, t) == Len(s) <= Len(t) /\ SubSeq(t, 1, Len(s)) = s

\* C32: the hashes h1..hn of a received block inventory are requested once
\* each and in the announced order, and when no message is under way and
\* every handler has returned, all of them have been requested.
C32_InventoryDrainsInOrder ==
    /\ IsPrefix(Asked, Announced)
    /\ (sendInv(Node, Announced) \notin net /\ SyncDone) => Asked = Announced

(***************************************************************************)
(* The handshake alone.  One of the two processes is the seed node; the    *)
(* other opens with a version message, as Server.Start does.  No block is  *)
(* delivered, so the heights stay as they are.                             *)
(***************************************************************************)
InitShake ==
    \E h \in 0..(MaxHeight + 1) : \E H \in 0..(MaxHeight + 1) : \E seedNode \in {Node, Peer} :
        /\ peerChain = PeerChainTo(H)
        /\ InitNode(PeerChainTo(h))
        /\ InitWire(<< sendVersion(seedNode, IF seedNode = Peer THEN h ELSE H) >>, seedNode)

NextShake ==
    \/ PeerServe
    \/ HandleVersion(1)
    \/ HandleAddr(1)

SpecShake == InitShake /\ [][NextShake]_vars

\* The version messages sent so far.
Versions == SelectSeq(sent, LAMBDA m : m.cmd = "version")

\* The messages the step sends.
Sending == { sent'[k] : k \in (Len(sent) + 1)..Len(sent') }

\* The node handles a version message in this step as the handshake rule says.
HandshakeRule ==
    \A m \in net \ net' :
        (m.to = Node /\ m.cmd = "version") =>
            LET h == GetBestHeight(db, LastHash)
            IN  /\ nodeIsKnown(knownNodes'[Node], Peer)
                /\ sendAddr(Peer, knownNodes'[Node]) \in Sending
                /\ sendGetBlocks(Peer) \in Sending <=> h < m.height
                /\ (\E v \in Sending : v.cmd = "version") <=> h > m.height
                /\ \A v \in Sending : v.cmd = "version" => v = sendVersion(Peer, h)

\* C33: a node at height h that receives version from P at height h_P has P
\* in knownNodes afterwards and sends P its peer list, sends getblocks iff
\* h < h_P and its own version iff h > h_P; with the heights unchanged no
\* more than two version messages are ever sent between the two.
C33_Handshake ==
    /\ [](Len(Versions) <= 2)
    /\ [][HandshakeRule]_vars

\* The node opened, the higher peer answered with its version, the node
\* asked for the blocks, and every handshake message has been handled.
C33_Witness ==
    /\ Len(Versions) = 2
    /\ \E k \in 1..Len(sent) : sent[k] = sendGetBlocks(Peer)
    /\ \A m \in net : m.cmd \notin {"version", "addr"}

(***************************************************************************)
(* The node serving what peers send: getdata for hashes it has and has     *)
(* not, block and tx messages, and frames that are damaged.  A byte string *)
(* that is a cut-off encoding does not decode.                             *)
(***************************************************************************)
MaxInbound == 3

Truncated(bytes) == SubSeq(bytes, 1, Len(bytes) - 1)

\* blockchain.Deserialize: gob decodes the bytes of a whole block only.
DecodesBlock(bytes) == Len(bytes) = Len(Serialize(Genesis))

\* blockchain.DeserializeTransaction: the transaction the bytes encode.
Decoded(bytes) == { t \in TxCandidates : SerializeTx(t) = bytes }
DecodesTx(bytes) == Decoded(bytes) # {}
DeserializeTransaction(bytes) == CHOOSE t \in Decoded(bytes) : TRUE

\* What peers send to the node.
Inbound ==
    LET block == sendBlock(Node, PeerChild(Genesis))
        tx == sendTx(Node, Honest)
    IN  { sendGetData(Node, Genesis.Hash),
          sendGetData(Node, PeerChild(Genesis).Hash),
          sendGetDataTx(Node, Honest.ID),
          sendGetDataTx(Node, Inflated.ID),
          block, tx,
          [block EXCEPT !.block = Truncated(@)],
          [tx EXCEPT !.tx = Truncated(@)],
          [block EXCEPT !.frame = "short"],
          [block EXCEPT !.frame = "garbled"],
          [tx EXCEPT !.frame = "garbled"],
          [sendGetData(Node, Genesis.Hash) EXCEPT !.frame = "garbled"] }

InitServe ==
    /\ InitNode(<< Genesis >>)
    /\ peerChain = << >>
    /\ sent = << >>
    /\ knownNodes = [n \in {Node, Peer} |-> << Peer >>]
    /\ net \in { frames \in SUBSET Inbound : Cardinality(frames) <= MaxInbound }

\* handleConnection on a frame shorter than the command, and every handler
\* on a payload that does not decode: the frame is dropped.
DropFrame(i) ==
    /\ ~crashed
    /\ Handler(i).pc = "idle"
    /\ \E m \in net :
        /\ m.to = Node
        /\ m.frame # "ok"
        /\ net' = net \ {m}
    /\ UNCHANGED << db, lh, LastHash, utxo, memoryPool, miningInterrupt, blocksInTransit,
                    sent, knownNodes, miner, handlers, now, crashed, peerChain, tipLog >>

\* handleGetData.  For a block, getBlock walks the chain from the tip and a
\* hash it does not meet is an error; for a transaction, memoryPool[txID] of
\* an id that is not in the pool is nil and sendTx dereferences it.
HandleGetData(i) ==
    /\ ~crashed
    /\ Handler(i).pc = "idle"
    /\ \E m \in net :
        /\ m.to = Node
        /\ m.frame = "ok"
        /\ m.cmd = "getdata"
        /\ LET found == getBlock(Walk(db, LastHash).blocks, m.items[1])
               reply == IF m.kind = "block"
                        THEN IF found = {} THEN << >>
                             ELSE << sendBlock(Peer, CHOOSE b \in found : TRUE) >>
                        ELSE IF m.items[1] \in DOMAIN memoryPool
                             THEN << sendTx(Peer, memoryPool[m.items[1]]) >>
                             ELSE << >>
           IN  /\ Answer(m, reply)
               /\ crashed' = (m.kind = "tx" /\ m.items[1] \notin DOMAIN memoryPool)
    /\ UNCHANGED << db, lh, LastHash, utxo, memoryPool, miningInterrupt, blocksInTransit,
                    knownNodes, miner, handlers, now, peerChain, tipLog >>

\* handleBlock on a whole frame: Deserialize panics on bytes that do not
\* decode, and a decoded block goes to addBlock.
HandleBlockBytes(i) ==
    \E m \in net :
        /\ m.to = Node
        /\ m.frame = "ok"
        /\ m.cmd = "block"
        /\ net' = net \ {m}
        /\ IF DecodesBlock(m.block)
           THEN ReceiveBlock(i, m.block)
           ELSE /\ ~crashed
                /\ Handler(i).pc = "idle"
                /\ crashed' = TRUE
                /\ UNCHANGED << db, lh, LastHash, utxo, memoryPool, miningInterrupt,
                                blocksInTransit, miner, handlers, now, peerChain, tipLog >>
        /\ UNCHANGED << sent, knownNodes >>

\* handleTx on a whole frame: DeserializeTransaction panics on bytes that do
\* not decode, and a decoded transaction goes into the mempool.
HandleTxBytes(i) ==
    /\ ~crashed
    /\ Handler(i).pc = "idle"
    /\ ~MinerHoldsMempool
    /\ \E m \in net :
        /\ m.to = Node
        /\ m.frame = "ok"
        /\ m.cmd = "tx"
        /\ net' = net \ {m}
        /\ IF DecodesTx(m.tx)
           THEN /\ memoryPool' = MapPut(memoryPool, DeserializeTransaction(m.tx).ID,
                                        DeserializeTransaction(m.tx))
                /\ crashed' = FALSE
           ELSE /\ memoryPool' = memoryPool
                /\ crashed' = TRUE
    /\ UNCHANGED << db, lh, LastHash, utxo, miningInterrupt, blocksInTransit, sent,
                    knownNodes, miner, handlers, now, peerChain, tipLog >>

NextServe ==
    \/ DropFrame(1)
    \/ HandleGetData(1)
    \/ HandleBlockBytes(1)
    \/ HandleTxBytes(1)
    \/ FinishBlock(1)

SpecServe == InitServe /\ [][NextServe]_vars

\* The state of the node that a dropped message must leave alone.
NodeState == << db, lh, LastHash, utxo, memoryPool, miningInterrupt, blocksInTransit,
                knownNodes[Node] >>

\* The step changes nothing in the node, sends nothing and the node lives on.
Ignored ==
    /\ UNCHANGED NodeState
    /\ sent' = sent
    /\ ~crashed'

\* The getdata asks for a block hash that is not on the chain or for a
\* transaction id that is not in the mempool.
AsksUnknown(m) ==
    /\ m.to = Node /\ m.cmd = "getdata" /\ m.frame = "ok"
    /\ IF m.kind = "block"
       THEN getBlock(Walk(db, LastHash).blocks, m.items[1]) = {}
       ELSE m.items[1] \notin DOMAIN memoryPool

\* C34: a getdata for a block hash or a transaction id the node does not
\* have is answered with nothing, changes nothing in the node, and the node
\* keeps serving.
C34_UnknownGetDataIgnored ==
    [][\A m \in net \ net' : AsksUnknown(m) => Ignored]_vars

\* A frame shorter than the command, a payload that does not decode, or a
\* block or tx payload whose inner bytes do not decode.
Malformed(m) ==
    /\ m.to = Node
    /\ \/ m.frame # "ok"
       \/ m.cmd = "block" /\ ~DecodesBlock(m.block)
       \/ m.cmd = "tx" /\ ~DecodesTx(m.tx)

\* C35: a malformed inbound message is dropped: the store, the tips, the
\* index, the mempool and the peer set stay as they are and the node keeps
\* serving.
C35_MalformedDropped ==
    [][\A m \in net \ net' : Malformed(m) => Ignored]_vars

\* C36: no transaction id other than a coinbase's is in more than one block
\* of the chain under the in-memory tip.
C36_NoTxInTwoBlocks ==
    LET chain == Walk(db, LastHash).blocks
    IN  \A a \in 1..Len(chain) : \A b \in 1..Len(chain) :
            a # b => IncludedIds(chain[a]) \cap IncludedIds(chain[b]) = {}

\* The public key of every input of tx hashes to the key hash that locks the
\* output the input refers to.
OwnsInputs(walk, tx) ==
    \A n \in 1..Len(tx.Inputs) :
        LET prev == FindTransaction(walk, tx.Inputs[n].ID)
        IN  /\ prev.status = "found"
            /\ tx.Inputs[n].Out + 1 \in 1..Len(prev.tx.Outputs)
            /\ HashPubKey(tx.Inputs[n].PubKey)
                   = prev.tx.Outputs[tx.Inputs[n].Out + 1].PubKeyHash

\* C37: a transaction of the mempool other than a coinbase verifies against
\* the chain only if each of its inputs carries the public key whose hash
\* locks the output it spends.
C37_VerifiedInputsAreOwned ==
    \A id \in DOMAIN memoryPool :
        LET walk == Walk(db, LastHash)
            tx == memoryPool[id]
        IN  (~IsCoinbase(tx) /\ VerifyTransaction(walk, tx) = "true")
                => OwnsInputs(walk, tx)

(***************************************************************************)
(* NewTransaction on the chain: Blockchain.FindUnspentTransactions,        *)
(* Blockchain.FindSpendableOutputs and the transaction built from the      *)
(* selection.                                                              *)
(***************************************************************************)
\* The Outputs loop of FindUnspentTransactions on one transaction: a copy of
\* the transaction for every output that is not recorded as spent and is
\* locked to the key hash.
UnspentCopies(tx, spent, pubKeyHash) ==
    LET live == { o \in 1..Len(tx.Outputs) :
                    (o - 1) \notin spent /\ tx.Outputs[o].PubKeyHash = pubKeyHash }
    IN  [k \in 1..Cardinality(live) |-> tx]

\* The Inputs loop of FindUnspentTransactions: the outputs that the inputs
\* made with the key refer to are recorded as spent.
RECURSIVE RecordSpent(_, _, _)
RecordSpent(ins, spentTXOs, pubKeyHash) ==
    IF Len(ins) = 0 THEN spentTXOs
    ELSE LET in == Head(ins)
             marked == IF HashPubKey(in.PubKey) = pubKeyHash
                       THEN MapPut(spentTXOs, in.ID,
                                   MapGet(spentTXOs, in.ID, {}) \cup {in.Out})
                       ELSE spentTXOs
         IN  RecordSpent(Tail(ins), marked, pubKeyHash)

\* Blockchain.FindUnspentTransactions over the transactions in the order of
\* the walk, from the tip block to genesis.
RECURSIVE FindUnspentLoop(_, _, _)
FindUnspentLoop(txs, spentTXOs, pubKeyHash) ==
    IF Len(txs) = 0 THEN << >>
    ELSE LET tx == Head(txs)
             copies == UnspentCopies(tx, MapGet(spentTXOs, tx.ID, {}), pubKeyHash)
             marked == IF IsCoinbase(tx) THEN spentTXOs
                       ELSE RecordSpent(tx.Inputs, spentTXOs, pubKeyHash)
         IN  copies \o FindUnspentLoop(Tail(txs), marked, pubKeyHash)

FindUnspentTransactions(blocks, pubKeyHash) ==
    FindUnspentLoop(TxsOf(blocks), EmptyMap, pubKeyHash)

\* The loop of Blockchain.FindSpendableOutputs over the outputs of one
\* transaction, from output outIdx on.
RECURSIVE SpendableOutputsOf(_, _, _, _, _)
SpendableOutputsOf(tx, outIdx, pubKeyHash, amount, r) ==
    IF outIdx >= Len(tx.Outputs) THEN r
    ELSE LET out == tx.Outputs[outIdx + 1]
             take == out.PubKeyHash = pubKeyHash /\ r.accumulated < amount
         IN  SpendableOutputsOf(tx, outIdx + 1, pubKeyHash, amount,
                 IF take
                 THEN [accumulated |-> r.accumulated + out.Value,
                       unspentOuts |-> MapPut(r.unspentOuts, tx.ID,
                           Append(MapGet(r.unspentOuts, tx.ID, << >>), outIdx))]
                 ELSE r)

\* Blockchain.FindSpendableOutputs: nothing is taken once the amount is
\* reached, which is where the loop breaks.
RECURSIVE SpendableLoop(_, _, _, _)
SpendableLoop(unspentTxs, pubKeyHash, amount, r) ==
    IF Len(unspentTxs) = 0 THEN r
    ELSE SpendableLoop(Tail(unspentTxs), pubKeyHash, amount,
                       SpendableOutputsOf(Head(unspentTxs), 0, pubKeyHash, amount, r))

ChainFindSpendableOutputs(blocks, pubKeyHash, amount) ==
    SpendableLoop(FindUnspentTransactions(blocks, pubKeyHash), pubKeyHash, amount,
                  [accumulated |-> 0, unspentOuts |-> EmptyMap])

\* The inputs NewTransaction makes of a selection; the order in which the
\* map is visited does not matter to what the inputs refer to.
RECURSIVE InputsOf(_, _)
InputsOf(validOutputs, pubKey) ==
    IF DOMAIN validOutputs = {} THEN << >>
    ELSE LET id == CHOOSE k \in DOMAIN validOutputs : TRUE
         IN  [k \in 1..Len(validOutputs[id]) |->
                 TXInput(id, validOutputs[id][k], NilBytes, pubKey)]
                 \o InputsOf([k \in DOMAIN validOutputs \ {id} |-> validOutputs[k]], pubKey)

\* NewTransaction(from, to, amount, chain): "panic" without the funds.
NewTransaction(from, to, amount, blocks) ==
    LET r == ChainFindSpendableOutputs(blocks, HashPubKey(from), amount)
        unsigned == [ID |-> NilBytes,
                     Inputs |-> InputsOf(r.unspentOuts, from),
                     Outputs |-> IF r.accumulated > amount
                                 THEN << TXOutput(amount, HashPubKey(to)),
                                         TXOutput(r.accumulated - amount, HashPubKey(from)) >>
                                 ELSE << TXOutput(amount, HashPubKey(to)) >>]
        tx == [unsigned EXCEPT !.ID = TxHash(unsigned)]
        prev(n) == FindTransaction([status |-> "ok", blocks |-> blocks], tx.Inputs[n].ID).tx
    IN  IF r.accumulated < amount THEN [status |-> "panic", tx |-> tx]
        ELSE [status |-> "ok",
              tx |-> [tx EXCEPT !.Inputs = [n \in 1..Len(tx.Inputs) |->
                         [tx.Inputs[n] EXCEPT
                            !.Signature = Sign(from, SigningDigest(tx, n, prev(n)))]]]]

\* The outputs the inputs refer to, read in the blocks.
ReferredOutputs(ins, blocks) ==
    [n \in 1..Len(ins) |->
        FindTransaction([status |-> "ok", blocks |-> blocks], ins[n].ID)
            .tx.Outputs[ins[n].Out + 1]]

\* C38: every input of a transaction that NewTransaction builds on the chain
\* refers to an output that is locked to the sender and that no transaction
\* of the chain spends, and the values of its outputs add up to the values
\* of the outputs its inputs refer to.
C38_NewTransactionSpendsOwnUnspent ==
    LET chain == Walk(db, LastHash).blocks
    IN  \A from \in {MinerKey, OtherKey} : \A amount \in {10, 20, 30, 40, 50} :
            LET r == NewTransaction(from, IF from = MinerKey THEN OtherKey ELSE MinerKey,
                                    amount, chain)
                referred == ReferredOutputs(r.tx.Inputs, chain)
            IN  r.status = "ok" =>
                    /\ \A n \in 1..Len(r.tx.Inputs) :
                          /\ referred[n].PubKeyHash = HashPubKey(from)
                          /\ ~SpentIn(r.tx.Inputs[n], chain)
                    /\ SumValues(r.tx.Outputs) = SumValues(referred)

\* C39: a search ends in cancellation only if, while it was running, a
\* block of the height it searches for was accepted and sent its token; a
\* token sent while no search was running, or for the block the search
\* builds on, cancels no search.
C39_NoStaleCancellation ==
    [][(miner.pc = "poll" /\ miner'.pc = "idle" /\ miner'.outcome = "cancelled")
           => miner.overtaken]_vars

\* C40: whenever neither the miner nor a connection goroutine is between its
\* write of a block and the end of its update of the tip, the in-memory tip
\* is the hash stored under the tip key.
C40_TipsAgree ==
    NoPersistMidFlight => LastHash = lh
====
